---- MODULE Spec2Model ----
(***************************************************************************)
(* A model of the interactive shell of src/app/main.ts: the line           *)
(* tokenizer, the dispatcher with its redirection extraction, the output   *)
(* engine with its asynchronous file write streams, the single-stage       *)
(* commands and the pipeline executor.                                     *)
(*                                                                         *)
(* Strings of the program are sequences of one-character strings, so that  *)
(* tokenizing, joining and trimming are computed and not assumed.          *)
(***************************************************************************)
EXTENDS Naturals, Integers, Sequences, FiniteSets, TLC

(***************************************************************************)
(* Bounds of the model.                                                    *)
(***************************************************************************)
\* longest line handed to the tokenizer on its own
MaxLen == 3
\* longest token list handed to the redirection extraction on its own
MaxTokens == 4
\* most calls of processOutput made on its own
MaxCalls == 2
\* most lines read in a session
MaxLines == 2
\* longest argument of an echo line
MaxArg == 4
\* most lines read in a session about the history
MaxHistLines == 3
\* most entries of a store before the line that writes it
MaxEntries == 2
\* most directories of a search path, and most entries of one of them
MaxDirs == 2
MaxDirEntries == 2
\* most completion requests in a row
MaxTabs == 3
\* most lines read in a session of cd lines
MaxCdLines == 2
\* lines read by a session of type lines
MaxTypeLines == 1
\* lines read by a session of pipelines with built-in stages
MaxStageLines == 2
\* lines read by a session of lines with several or quoted operators
MaxOperatorLines == 2
\* lines read by a session of external commands with a redirection
MaxExecLines == 1
\* rows the loop that prints the match list is followed for
MaxRows == 4
\* strings handed to findLCP
MaxStrings == 3
\* words inserted into a trie of its own
MaxWords == 3

(***************************************************************************)
(* Characters.                                                             *)
(***************************************************************************)
SQ == "'"
DQ == "\""
BS == "\\"
TILDE == "~"
SP == " "
TAB == "\t"
NL == "\n"
DOLLAR == "$"
\* the backquote character (a string of the module cannot hold it)
BQ == "backquote"

\* A tokenizer that splits at spaces only.
delimitersSpaceOnly == {SP}

\* main.ts:581  const delimiters = ["\ ", "\t"]
delimiters == {SP, TAB}

\* main.ts:595  the characters a backslash escapes inside double quotes
doubleQuoteEscapes == {DQ, BS, DOLLAR, BQ}

\* os.homedir(), main.ts:646: some absolute path of more than one character
homedir == <<"/", "h">>

(***************************************************************************)
(* String helpers (sequences of characters).                               *)
(***************************************************************************)
RECURSIVE Concat(_)
\* the elements of a sequence of strings, one after the other
Concat(ss) == IF ss = <<>> THEN <<>> ELSE Head(ss) \o Concat(Tail(ss))

RECURSIVE Join(_, _)
\* Array.prototype.join: the elements separated by sep
Join(ss, sep) ==
    IF ss = <<>> THEN <<>>
    ELSE IF Len(ss) = 1 THEN ss[1]
    ELSE ss[1] \o sep \o Join(Tail(ss), sep)

\* the sequences over S of length at most n
SeqUpTo(S, n) == UNION {[1..k -> S] : k \in 0..n}

(***************************************************************************)
(* The tokenizer, main.ts:578-661.                                         *)
(***************************************************************************)
\* String.prototype.normalize("NFC"), main.ts:579.  Every character of the
\* model's alphabet is ASCII, and NFC leaves ASCII text as it is.
normalizeNFC(line) == line

\* main.ts:583-586: the flags and the accumulator before the first character
FormatInit ==
    [inSingleQuotes |-> FALSE, inDoubleQuotes |-> FALSE, escape |-> FALSE,
     currentToken |-> <<>>, tokens |-> <<>>]

\* main.ts:588-590
updateToken(st, chars) == [st EXCEPT !.currentToken = @ \o chars]

\* A tokenizer that drops the backslash before an ordinary character inside
\* double quotes.
FormatCharDropsBackslash(st, char) ==
    IF st.escape
    THEN [updateToken(st, <<char>>) EXCEPT !.escape = FALSE]
    ELSE IF char \in delimiters /\ ~st.inSingleQuotes /\ ~st.inDoubleQuotes
    THEN IF Len(st.currentToken) > 0
         THEN [st EXCEPT !.tokens = Append(@, st.currentToken),
                         !.currentToken = <<>>]
         ELSE st
    ELSE CASE char = BS ->
                IF ~st.inSingleQuotes
                THEN [st EXCEPT !.escape = TRUE]
                ELSE updateToken(st, <<char>>)
           [] char = SQ ->
                IF st.inDoubleQuotes
                THEN updateToken(st, <<char>>)
                ELSE [st EXCEPT !.inSingleQuotes = ~@]
           [] char = DQ ->
                IF st.inSingleQuotes
                THEN updateToken(st, <<char>>)
                ELSE [st EXCEPT !.inDoubleQuotes = ~@]
           [] char = TILDE ->
                IF ~st.inSingleQuotes /\ ~st.inDoubleQuotes
                THEN updateToken(st, homedir)
                ELSE updateToken(st, <<char>>)
           [] OTHER -> updateToken(st, <<char>>)

\* A tokenizer that keeps the quote mark that opens a double-quoted span.
FormatCharKeepsOpeningQuote(st, char) ==
    IF st.escape
    THEN [(IF st.inDoubleQuotes
           THEN IF char \in doubleQuoteEscapes
                THEN updateToken(st, <<char>>)
                ELSE updateToken(st, <<BS, char>>)
           ELSE updateToken(st, <<char>>)) EXCEPT !.escape = FALSE]
    ELSE IF char \in delimiters /\ ~st.inSingleQuotes /\ ~st.inDoubleQuotes
    THEN IF Len(st.currentToken) > 0
         THEN [st EXCEPT !.tokens = Append(@, st.currentToken),
                         !.currentToken = <<>>]
         ELSE st
    ELSE CASE char = BS ->
                IF ~st.inSingleQuotes
                THEN [st EXCEPT !.escape = TRUE]
                ELSE updateToken(st, <<char>>)
           [] char = SQ ->
                IF st.inDoubleQuotes
                THEN updateToken(st, <<char>>)
                ELSE [st EXCEPT !.inSingleQuotes = ~@]
           [] char = DQ ->
                IF st.inSingleQuotes
                THEN updateToken(st, <<char>>)
                ELSE IF ~st.inDoubleQuotes
                     THEN [updateToken(st, <<char>>) EXCEPT !.inDoubleQuotes = TRUE]
                     ELSE [st EXCEPT !.inDoubleQuotes = FALSE]
           [] char = TILDE ->
                IF ~st.inSingleQuotes /\ ~st.inDoubleQuotes
                THEN updateToken(st, homedir)
                ELSE updateToken(st, <<char>>)
           [] OTHER -> updateToken(st, <<char>>)

\* main.ts:592-655: the body of the loop, for one character
FormatChar(st, char) ==
    IF st.escape
    THEN \* 593-605
         [(IF st.inDoubleQuotes
           THEN IF char \in doubleQuoteEscapes
                THEN updateToken(st, <<char>>)
                ELSE updateToken(st, <<BS, char>>)
           ELSE updateToken(st, <<char>>)) EXCEPT !.escape = FALSE]
    ELSE IF char \in delimiters /\ ~st.inSingleQuotes /\ ~st.inDoubleQuotes
    THEN \* 606-612
         IF Len(st.currentToken) > 0
         THEN [st EXCEPT !.tokens = Append(@, st.currentToken),
                         !.currentToken = <<>>]
         ELSE st
    ELSE CASE char = BS ->
                \* 614-620
                IF ~st.escape /\ ~st.inSingleQuotes
                THEN [st EXCEPT !.escape = TRUE]
                ELSE updateToken(st, <<char>>)
           [] char = SQ ->
                \* 621-631
                IF st.inDoubleQuotes
                THEN updateToken(st, <<char>>)
                ELSE IF ~st.inSingleQuotes
                     THEN [st EXCEPT !.inSingleQuotes = TRUE]
                     ELSE [st EXCEPT !.inSingleQuotes = FALSE]
           [] char = DQ ->
                \* 632-643
                IF st.inSingleQuotes
                THEN updateToken(st, <<char>>)
                ELSE IF ~st.inDoubleQuotes
                     THEN [st EXCEPT !.inDoubleQuotes = TRUE]
                     ELSE [st EXCEPT !.inDoubleQuotes = FALSE]
           [] char = TILDE ->
                \* 644-650
                IF ~st.inSingleQuotes /\ ~st.inDoubleQuotes
                THEN updateToken(st, homedir)
                ELSE updateToken(st, <<char>>)
           [] OTHER ->
                \* 651-653
                updateToken(st, <<char>>)

RECURSIVE FormatLoop(_, _)
\* main.ts:592: for (const char of formattedLine)
FormatLoop(st, line) ==
    IF line = <<>> THEN st
    ELSE FormatLoop(FormatChar(st, Head(line)), Tail(line))

\* main.ts:578-661
handleFormatting(line) ==
    LET st == FormatLoop(FormatInit, normalizeNFC(line))
    IN  IF Len(st.currentToken) > 0
        THEN Append(st.tokens, st.currentToken)
        ELSE st.tokens

(***************************************************************************)
(* The dispatcher's helpers, utils.ts and main.ts:63-71, 831-845.          *)
(***************************************************************************)
\* JavaScript's undefined, as a value that can be compared with a string
undefined == <<"undefined">>

\* main.ts:69  ["2>", "2>>", "1>", "1>>", ">", ">>"]
redirectionOptions ==
    << <<"2", ">">>, <<"2", ">", ">">>, <<"1", ">">>, <<"1", ">", ">">>,
       <<">">>, <<">", ">">> >>

\* the elements of a sequence
Range(s) == {s[i] : i \in 1..Len(s)}

\* Array.prototype.indexOf, 1-based; 0 when absent
indexOf(arr, x) ==
    IF x \in Range(arr)
    THEN CHOOSE i \in 1..Len(arr) : arr[i] = x /\ \A j \in 1..(i - 1) : arr[j] # x
    ELSE 0

\* A lookup that scans the options, not the arguments: the first option that
\* occurs anywhere among the arguments.
getFirstOptionPresent(searchArray, elementArray) ==
    IF \E j \in 1..Len(elementArray) : elementArray[j] \in Range(searchArray)
    THEN elementArray[CHOOSE j \in 1..Len(elementArray) :
                         /\ elementArray[j] \in Range(searchArray)
                         /\ \A h \in 1..(j - 1) : elementArray[h] \notin Range(searchArray)]
    ELSE undefined

\* utils.ts:13-17: the first element of searchArray that elementArray includes
getFirstCommonElementInArray(searchArray, elementArray) ==
    IF \E i \in 1..Len(searchArray) : searchArray[i] \in Range(elementArray)
    THEN searchArray[CHOOSE i \in 1..Len(searchArray) :
                        /\ searchArray[i] \in Range(elementArray)
                        /\ \A j \in 1..(i - 1) : searchArray[j] \notin Range(elementArray)]
    ELSE undefined

\* main.ts:834-836
isRedirect(redirect) == redirect \in Range(redirectionOptions)

\* Array.prototype.splice(start, 2) with a 1-based start: what is removed
spliced(arr, start) ==
    SubSeq(arr, start, IF start + 1 <= Len(arr) THEN start + 1 ELSE Len(arr))

\* Array.prototype.splice(start, 2): what is left
afterSplice(arr, start) ==
    SubSeq(arr, 1, start - 1) \o SubSeq(arr, start + 2, Len(arr))

\* main.ts:122-131: the head, the arguments left, the redirection's two tokens
\* and the value of redirectionFlag afterwards
extractRedirection(tokens, flag) ==
    LET root == IF tokens = <<>> THEN undefined ELSE Head(tokens)
        args == IF tokens = <<>> THEN <<>> ELSE Tail(tokens)
        redirect == getFirstCommonElementInArray(args, redirectionOptions)
    IN  IF redirect # undefined /\ isRedirect(redirect)
        THEN LET redirectIndex == indexOf(args, redirect)
             IN  [root |-> root,
                  args |-> afterSplice(args, redirectIndex),
                  outputArgs |-> spliced(args, redirectIndex),
                  redirectionFlag |-> redirect]
        ELSE [root |-> root, args |-> args, outputArgs |-> <<>>,
              redirectionFlag |-> flag]

\* main.ts:183-200: the stream a redirection operator sends to the file
\* (1: stdout, 2: stderr; 0: no operator, everything goes to the file)
redirectionFd(redirection) ==
    CASE redirection \in {<<">">>, <<">", ">">>, <<"1", ">">>, <<"1", ">", ">">>} -> 1
      [] redirection \in {<<"2", ">">>, <<"2", ">", ">">>} -> 2
      [] OTHER -> 0

\* String.prototype.includes
includes(str, sub) ==
    \E i \in 1..(Len(str) - Len(sub) + 1) : SubSeq(str, i, i + Len(sub) - 1) = sub

\* main.ts:215  redirection?.includes(">>") ? 'a' : 'w'
writeModeOf(redirection) ==
    IF redirection # undefined /\ includes(redirection, <<">", ">">>) THEN "a" ELSE "w"

(***************************************************************************)
(* The file system the shell sees.                                         *)
(***************************************************************************)
\* process.cwd()
cwd == <<"/", "w">>

\* a redirection target whose file can be created and written
TargetF == <<"f">>
\* a target under a directory that cannot be created (mkdirSync throws)
TargetN == <<"n", "/", "f">>
\* a target that cannot be opened for writing (the stream emits 'error')
TargetR == <<"r">>
\* main.ts:165  writePath = "output.txt"
defaultWritePath == <<"o", "u", "t", "p", "u", "t", ".", "t", "x", "t">>

\* path.dirname of a path with a directory part, else "."
dirname(p) ==
    IF "/" \in Range(p)
    THEN LET last == CHOOSE i \in 1..Len(p) :
                        p[i] = "/" /\ \A j \in (i + 1)..Len(p) : p[j] # "/"
         IN  IF last = 1 THEN <<"/">> ELSE SubSeq(p, 1, last - 1)
    ELSE <<".">>

\* path.basename
basename(p) ==
    IF "/" \in Range(p)
    THEN LET last == CHOOSE i \in 1..Len(p) :
                        p[i] = "/" /\ \A j \in (i + 1)..Len(p) : p[j] # "/"
         IN  SubSeq(p, last + 1, Len(p))
    ELSE p

\* path.resolve(dir, name): an absolute path, relative parts taken from the
\* working directory
pathResolve(dir, name) ==
    LET base == IF dir = <<".">> THEN cwd
                ELSE IF dir[1] = "/" THEN dir
                ELSE cwd \o <<"/">> \o dir
    IN  IF name[1] = "/" THEN name
        ELSE IF base = <<"/">> THEN base \o name
        ELSE base \o <<"/">> \o name

\* main.ts:202-205
processedWritePathOf(writePath) == pathResolve(dirname(writePath), basename(writePath))

\* main.ts:77  path.resolve(process.env.HISTFILE || "./log/history.txt"),
\* with HISTFILE=h
historyFilePath == pathResolve(<<".">>, <<"h">>)

\* the files the shell can create and write
Files == {processedWritePathOf(TargetF), processedWritePathOf(defaultWritePath),
          historyFilePath}

\* the content of a file that does not exist
NoFile == <<"ENOENT">>

\* fs.mkdirSync(dir, {recursive: true}) throws for this directory
mkdirFails(dir) == dir = dirname(processedWritePathOf(TargetN))

\* opening this file for writing fails
openFails(file) == file = processedWritePathOf(TargetR)

\* the content of a file that exists and that this user may neither read
\* nor write
Locked == <<"EACCES">>

\* the message of the error mkdirSync throws, and of the one a stream emits
MkdirErrorMessage == <<"E", "N", "O", "T", "D", "I", "R">>
OpenErrorMessage == <<"E", "A", "C", "C", "E", "S">>

(***************************************************************************)
(* The output engine, main.ts:161-255.                                     *)
(***************************************************************************)
\* what String.prototype.trim removes
Whitespace == {SP, TAB, NL}

RECURSIVE trimStart(_)
trimStart(str) ==
    IF str # <<>> /\ Head(str) \in Whitespace THEN trimStart(Tail(str)) ELSE str

RECURSIVE trimEnd(_)
trimEnd(str) ==
    IF str # <<>> /\ str[Len(str)] \in Whitespace
    THEN trimEnd(SubSeq(str, 1, Len(str) - 1))
    ELSE str

\* String.prototype.trim
trim(str) == trimEnd(trimStart(str))

\* main.ts:176-179
finalOf(content) ==
    LET formattedContent == normalizeNFC(trim(content))
    IN  IF Len(formattedContent) > 0 /\ formattedContent[Len(formattedContent)] # NL
        THEN formattedContent \o <<NL>>
        ELSE formattedContent

\* main.ts:174, 244-254: a call without shouldWrite.  env holds the terminal
\* streams and the write streams; line tags what is written with the input
\* line (or call) that produced it.  Writing the empty string adds nothing.
toTerminal(env, content, isError, line) ==
    IF content = undefined \/ content = <<>> \/ finalOf(content) = <<>>
    THEN env
    ELSE IF isError
    THEN [env EXCEPT !.stderr = Append(@, [line |-> line, text |-> finalOf(content)])]
    ELSE [env EXCEPT !.stdout = Append(@, [line |-> line, text |-> finalOf(content)])]

\* A choice of the file's content that ignores which stream the content is of.
contentCheckIgnoresStream(redirection, isError, final) == final

\* main.ts:183-200: what the file gets
contentCheckOf(redirection, isError, final) ==
    CASE redirectionFd(redirection) = 1 -> IF isError THEN <<>> ELSE final
      [] redirectionFd(redirection) = 2 -> IF isError THEN final ELSE <<>>
      [] OTHER -> final

\* A routing that never echoes redirected content on the terminal.
alsoToTerminalNever(redirection, isError) == FALSE

\* main.ts:183-200: whether the content also goes to the terminal
alsoToTerminal(redirection, isError) ==
    CASE redirectionFd(redirection) = 1 -> isError
      [] redirectionFd(redirection) = 2 -> ~isError
      [] OTHER -> isError

\* main.ts:161-255.  c is the call: content, isError, shouldWrite, writePath,
\* redirection (the caller passes redirectionFlag when the code defaults it)
\* and the line on whose behalf it is made.  The function returns once the
\* write stream is created; the stream's open, write and close come later
\* (StreamOpen, StreamWrite, StreamClose).
processOutput(env, c) ==
    IF c.content = undefined \/ c.content = <<>>
    THEN env                                                      \* 174
    ELSE LET writePath == IF c.writePath = undefined THEN defaultWritePath
                          ELSE c.writePath                        \* 165
         IN  IF c.shouldWrite /\ writePath # <<>>                 \* 181
             THEN LET env1 == IF alsoToTerminal(c.redirection, c.isError)
                              THEN toTerminal(env, c.content, c.isError, c.line)
                              ELSE env                            \* 183-200
                  IN  IF mkdirFails(dirname(processedWritePathOf(writePath)))
                      THEN toTerminal(env1, MkdirErrorMessage, TRUE, c.line) \* 206-214
                      ELSE [env1 EXCEPT !.streams = Append(@,     \* 215-228
                              [path |-> processedWritePathOf(writePath),
                               flags |-> writeModeOf(c.redirection),
                               data |-> contentCheckOf(c.redirection, c.isError,
                                                       finalOf(c.content)),
                               phase |-> "open",
                               onFinish |-> "none",
                               content |-> c.content,
                               isError |-> c.isError,
                               redirection |-> c.redirection,
                               line |-> c.line])]
             ELSE toTerminal(env, c.content, c.isError, c.line)   \* 244-254

\* a call of processOutput
OutputCall(content, isError, shouldWrite, writePath, redirection, line) ==
    [content |-> content, isError |-> isError, shouldWrite |-> shouldWrite,
     writePath |-> writePath, redirection |-> redirection, line |-> line]

(***************************************************************************)
(* Commands, main.ts:63-66, 831-879.                                       *)
(***************************************************************************)
echo == <<"e", "c", "h", "o">>
pwd == <<"p", "w", "d">>
cd == <<"c", "d">>
type == <<"t", "y", "p", "e">>
historyWord == <<"h", "i", "s", "t", "o", "r", "y">>

\* main.ts:64
escapeCommands ==
    {<<"e", "x", "i", "t">>, <<"q", "u", "i", "t">>, <<"q">>,
     <<"e", "s", "c", "a", "p", "e">>, <<"e", "s", "c">>}

\* main.ts:65
builtinCommands == {echo, type, pwd, cd, historyWord}

\* main.ts:840-842
isEscapeCommand(command) == command \in escapeCommands

\* main.ts:843-845
isShellBuiltInCommand(command) == command \in builtinCommands

\* main.ts:837-839
isShellCommand(command) == isEscapeCommand(command) \/ isShellBuiltInCommand(command)

\* main.ts:831-833
isPipeline(args) == <<"|">> \in Range(args) \/ <<"|", "&">> \in Range(args)

\* process.env.PATH split at path.delimiter, main.ts:848
PathDirs == << <<"/", "b">> >>

\* the files fs.accessSync(file, X_OK) accepts
ExecutableFiles == {<<"/", "b", "/", "x">>}

\* path.join(dir, name)
pathJoin(dir, name) == IF dir = <<>> THEN name ELSE dir \o <<"/">> \o name

\* main.ts:846-879 with log = false: whether some directory of the path
\* holds the command as an executable file
isExecutable(command) ==
    /\ command # undefined
    /\ \E i \in 1..Len(PathDirs) : pathJoin(PathDirs[i], command) \in ExecutableFiles

\* the texts an external command may write to a stream
ExternalStdout == <<"o", "u", "t", NL>>
ExternalStderr == <<"e", "r", "r", NL>>
\* the message of the error execFile passes for a failing command
ExecErrorMessage == <<"Command failed">>

\* what outputArgs says of the file: main.ts:144-145 and the like
shouldWriteOf(outputArgs) == Len(outputArgs) > 1
writePathOf(outputArgs) == IF Len(outputArgs) > 1 THEN outputArgs[2] ELSE undefined

\* main.ts:786-800
handleEcho(env, args, outputArgs, flag, line) ==
    processOutput(env, OutputCall(Join(args, <<SP>>), FALSE,
                                  shouldWriteOf(outputArgs), writePathOf(outputArgs),
                                  flag, line))

\* main.ts:771-785
handlePrintWorkingDir(env, outputArgs, flag, line) ==
    processOutput(env, OutputCall(env.workdir, FALSE,
                                  shouldWriteOf(outputArgs), writePathOf(outputArgs),
                                  flag, line))

\* process.env.PATH of the sessions: PathDirs joined with path.delimiter
DefaultPATH == <<"/", "b">>

\* The history store, main.ts:76: a Map from index to line.
\* Map.prototype.size
historySize(h) == Cardinality(DOMAIN h)

\* A store that puts every new entry at index 1.
historySetAtFirst(h, k, v) == [x \in DOMAIN h \cup {1} |-> IF x = 1 THEN v ELSE h[x]]

\* Map.prototype.set
historySet(h, k, v) == [x \in DOMAIN h \cup {k} |-> IF x = k THEN v ELSE h[x]]

RECURSIVE valuesFrom(_, _)
valuesFrom(h, keys) ==
    IF keys = {} THEN <<>>
    ELSE LET k == CHOOSE x \in keys : \A y \in keys : x <= y
         IN  <<h[k]>> \o valuesFrom(h, keys \ {k})

\* Array.from(history.values()): the lines in the order of insertion, which
\* is the order of the indices since every index set is size + 1
historyValues(h) == valuesFrom(h, DOMAIN h)

\* Array.prototype.splice(start) with a 0-based start: what is removed
spliceFrom(arr, start) == SubSeq(arr, start + 1, Len(arr))

\* String.prototype.split("\n")
RECURSIVE splitLines(_)
splitLines(data) ==
    IF NL \notin Range(data) THEN <<data>>
    ELSE LET i == indexOf(data, NL)
         IN  <<SubSeq(data, 1, i - 1)>> \o splitLines(SubSeq(data, i + 1, Len(data)))

\* main.ts:677-680: the lines of a file's data enter the store trimmed, the
\* blank ones left out
RECURSIVE loadLines(_, _)
loadLines(h, lines) ==
    IF lines = <<>> THEN h
    ELSE IF Len(trim(Head(lines))) < 1 THEN loadLines(h, Tail(lines))
    ELSE loadLines(historySet(h, historySize(h) + 1, trim(Head(lines))), Tail(lines))

\* the message of the error readFileSync throws
ReadErrorMessage(file) == <<"ENOENT: no such file or directory, open '">> \o file \o <<"'">>

\* fs.readFileSync succeeds
readable(files, file) == file \in DOMAIN files /\ files[file] \notin {NoFile, Locked}

\* String.prototype.startsWith("-")
startsWithDash(arg) == Len(arg) > 0 /\ arg[1] = "-"

\* main.ts:664
hasFlagsOf(args) == SelectSeq(args, startsWithDash)

DASH_R == <<"-", "r">>
DASH_W == <<"-", "w">>
DASH_A == <<"-", "a">>

\* main.ts:668-669: the first flag the switch has a case for
firstKnownFlag(flags) ==
    LET known == SelectSeq(flags, LAMBDA f : f \in {DASH_R, DASH_W, DASH_A})
    IN  IF known = <<>> THEN undefined ELSE Head(known)

\* utils.ts:18-26: the flagArgs of parseFlag(args, flag, 1)
parseFlag(args, flag) ==
    LET flagIndex == indexOf(args, flag)
    IN  IF flagIndex = 0 THEN <<>>
        ELSE SubSeq(args, flagIndex + 1,
                    IF flagIndex + 1 <= Len(args) THEN flagIndex + 1 ELSE Len(args))

\* main.ts:672, 700, 719: flagArgs[0] && path.resolve(flagArgs[0])
flagPathOf(args, flag) ==
    LET flagArgs == parseFlag(args, flag)
    IN  IF flagArgs # <<>> /\ flagArgs[1] # <<>>
        THEN pathResolve(<<".">>, flagArgs[1])
        ELSE undefined

Digits == <<"0", "1", "2", "3", "4", "5", "6", "7", "8", "9">>
NaN == -1

\* Number.parseInt of a token: the value of its leading digits, NaN without
RECURSIVE parseDigits(_, _)
parseDigits(str, acc) ==
    IF str = <<>> \/ Head(str) \notin Range(Digits) THEN acc
    ELSE parseDigits(Tail(str), 10 * acc + (indexOf(Digits, Head(str)) - 1))

parseInt(str) ==
    IF str = <<>> \/ Head(str) \notin Range(Digits) THEN NaN ELSE parseDigits(str, 0)

\* main.ts:747-756: the listing goes straight to process.stdout, one write
\* per entry
RECURSIVE listEntries(_, _, _, _)
listEntries(env, keys, args, line) ==
    IF keys = {} THEN env
    ELSE LET k == CHOOSE x \in keys : \A y \in keys : x <= y
             h == env.history
             skip == /\ args # <<>> /\ args[1] # <<>>
                     /\ parseInt(args[1]) # NaN
                     /\ k <= historySize(h) - parseInt(args[1])
             kv == <<ToString(k), "  ">> \o h[k] \o <<NL>>
             env1 == IF skip THEN env
                     ELSE [env EXCEPT !.stdout =
                              Append(@, [line |-> line, text |-> <<"    ">> \o kv])]
         IN  listEntries(env1, keys \ {k}, args, line)

\* main.ts:670-698: history -r
historyRead(env, args, outputArgs, flag, line) ==
    LET readFilePath == flagPathOf(args, DASH_R)
    IN  IF readFilePath # undefined
        THEN IF readable(env.files, readFilePath)
             THEN [env EXCEPT !.history =
                      loadLines(@, splitLines(env.files[readFilePath]))]
             ELSE processOutput(env, OutputCall(ReadErrorMessage(readFilePath), TRUE,
                                                shouldWriteOf(outputArgs),
                                                writePathOf(outputArgs), flag, line))
        ELSE processOutput(env,
                 OutputCall(<<"history: No file path provided with -r flag">>, TRUE,
                            shouldWriteOf(outputArgs), writePathOf(outputArgs),
                            flag, line))

\* main.ts:703-707: history -w names no redirection, so processOutput takes
\* redirectionFlag
historyWriteRedirection(flag) == flag

\* main.ts:699-717: history -w
historyWrite(env, args, flag, line) ==
    processOutput(env, OutputCall(Join(historyValues(env.history), <<NL>>), FALSE,
                                  TRUE, flagPathOf(args, DASH_W),
                                  historyWriteRedirection(flag), line))

\* A cursor that moves past the store's size.
appendCursorAfterDouble(prev, count) == count + count + prev

\* main.ts:732: the append cursor after history -a
appendCursorAfter(prev, count) == count + prev

\* main.ts:718-743: history -a
historyAppend(env, args, line) ==
    LET historyData == historyValues(env.history)
        appendedHistoryData == spliceFrom(historyData, env.previousAppendSize)
        env1 == processOutput(env, OutputCall(Join(appendedHistoryData, <<NL>>), FALSE,
                                              TRUE, flagPathOf(args, DASH_A),
                                              <<">", ">">>, line))
    IN  [env1 EXCEPT !.previousAppendSize =
            appendCursorAfter(@, Len(appendedHistoryData))]

\* main.ts:664-757
handleHistory(env, args, outputArgs, flag, line) ==
    LET f == firstKnownFlag(hasFlagsOf(args))
    IN  CASE f = DASH_R -> historyRead(env, args, outputArgs, flag, line)
          [] f = DASH_W -> historyWrite(env, args, flag, line)
          [] f = DASH_A -> historyAppend(env, args, line)
          [] OTHER -> listEntries(env, DOMAIN env.history, args, line)

\* String.prototype.split(sep) for a separator of one character
RECURSIVE split(_, _)
split(str, sep) ==
    IF sep \notin Range(str) THEN <<str>>
    ELSE LET i == indexOf(str, sep)
         IN  <<SubSeq(str, 1, i - 1)>> \o split(SubSeq(str, i + 1, Len(str)), sep)

\* path.resolve's normalisation: empty and "." segments go, ".." takes the
\* segment before it
RECURSIVE normalizeSegments(_, _)
normalizeSegments(segments, acc) ==
    IF segments = <<>> THEN acc
    ELSE LET seg == Head(segments)
         IN  normalizeSegments(Tail(segments),
                 IF seg = <<>> \/ seg = <<".">> THEN acc
                 ELSE IF seg = <<".", ".">>
                 THEN (IF acc = <<>> THEN acc ELSE SubSeq(acc, 1, Len(acc) - 1))
                 ELSE Append(acc, seg))

\* path.resolve(p) in working directory wd
resolveIn(wd, p) ==
    LET full == IF p # <<>> /\ p[1] = "/" THEN p ELSE wd \o <<"/">> \o p
    IN  <<"/">> \o Join(normalizeSegments(split(full, "/"), <<>>), <<"/">>)

\* The directories of the file system: d and the home directory can be
\* entered, k exists and cannot be searched
FsDirs == {<<"/">>, cwd, cwd \o <<"/", "d">>, homedir}
FsLockedDirs == {cwd \o <<"/", "k">>}
\* a regular file
FsFiles == {cwd \o <<"/", "r">>}
\* symbolic links: l to the directory d, g to a path that does not exist
FsLink == cwd \o <<"/", "l">>
FsDanglingLink == cwd \o <<"/", "g">>

\* fs.realpathSync of a path that exists
realpathSync(p) == IF p = FsLink THEN cwd \o <<"/", "d">> ELSE p

\* fs.accessSync(p) does not throw
accessSync(p) == p \in FsDirs \cup FsLockedDirs \cup FsFiles \cup {FsLink}

\* process.chdir(p) does not throw
chdirWorks(p) == p \in FsDirs

\* A cd that enters the path as it was given.
chdirTargetAsGiven(target) == target

\* main.ts:761: what process.chdir is called with
chdirTarget(target) == realpathSync(target)

\* path.resolve(p) throws a TypeError when p is not a string
resolveThrows(p) == p = undefined

\* main.ts:758-770: the call throws.  path.resolve(dir) throws inside the try
\* block (760); the catch block builds its message with path.resolve(dir)
\* again (764), outside any try block, and that error leaves the function.
changeDirThrows(dir) == resolveThrows(dir)

\* what the runtime prints on stderr for an error nothing catches
UncaughtTrace == <<"TypeError [ERR_INVALID_ARG_TYPE]", NL>>

\* main.ts:758-770, for a dir that is a string
handleChangeDir(env, dir, outputArgs, flag, line) ==
    LET target == resolveIn(env.workdir, dir)
    IN  IF accessSync(target) /\ chdirWorks(chdirTarget(target))
        THEN [env EXCEPT !.workdir = chdirTarget(target)]
        ELSE processOutput(env,
                 OutputCall(<<"cd: ">> \o target \o <<": No such file or directory">>,
                            TRUE, shouldWriteOf(outputArgs), writePathOf(outputArgs),
                            flag, line))

\* main.ts:851-869: the first directory of the list under which
\* fs.accessSync(path.join(dir, command), X_OK) does not throw; 0 when there
\* is none, or when the command is empty (852)
firstExecutableDir(command, directories, executables) ==
    IF command # <<>>
       /\ \E i \in 1..Len(directories) : pathJoin(directories[i], command) \in executables
    THEN CHOOSE i \in 1..Len(directories) :
            /\ pathJoin(directories[i], command) \in executables
            /\ \A j \in 1..(i - 1) : pathJoin(directories[j], command) \notin executables
    ELSE 0

\* main.ts:846-879 with log = true: the search of the path, reported
isExecutableLogged(env, command, pathToCheck, outputArgs, flag, line) ==
    LET directories == split(pathToCheck, ":")
        i == firstExecutableDir(command, directories, env.executables)
    IN  IF i # 0
        THEN processOutput(env,
                 OutputCall(command \o <<" is ">> \o pathJoin(directories[i], command),
                            FALSE, shouldWriteOf(outputArgs), writePathOf(outputArgs),
                            flag, line))                              \* 859-863
        ELSE processOutput(env,
                 OutputCall(command \o <<": not found">>,
                            TRUE, shouldWriteOf(outputArgs), writePathOf(outputArgs),
                            flag, line))                              \* 872-877

\* main.ts:801-828; checkCommand is "" when the line gave no argument (570)
handleType(env, checkCommand, outputArgs, flag, line) ==
    IF checkCommand = <<>>
    THEN processOutput(env,
             OutputCall(<<"type: please include an argument">>,
                        TRUE, shouldWriteOf(outputArgs), writePathOf(outputArgs),
                        flag, line))
    ELSE IF isShellCommand(checkCommand)
    THEN processOutput(env,
             OutputCall(checkCommand \o <<" is a shell builtin">>,
                        FALSE, shouldWriteOf(outputArgs), writePathOf(outputArgs),
                        flag, line))
    ELSE IF env.PATH # undefined /\ env.PATH # <<>>
    THEN isExecutableLogged(env, checkCommand, env.PATH, outputArgs, flag, line)
    ELSE processOutput(env,
             OutputCall(checkCommand \o <<": please set PATH">>,
                        TRUE, shouldWriteOf(outputArgs), writePathOf(outputArgs),
                        flag, line))

\* main.ts:558-575: the handler of the built-in throws an error that nothing
\* between it and the callback of rl.question catches (cd without argument:
\* args[0] is undefined)
builtinThrows(command, args) ==
    command = cd /\ changeDirThrows(IF args = <<>> THEN undefined ELSE args[1])

\* main.ts:558-575: the built-in's handler, when it returns
runBuiltin(env, command, args, outputArgs, flag, line) ==
    CASE command = echo -> handleEcho(env, args, outputArgs, flag, line)
      [] command = pwd -> handlePrintWorkingDir(env, outputArgs, flag, line)
      [] command = cd /\ args # <<>> ->
            handleChangeDir(env, args[1], outputArgs, flag, line)
      [] command = historyWord -> handleHistory(env, args, outputArgs, flag, line)
      [] command = type ->
            handleType(env, IF args = <<>> THEN <<>> ELSE args[1], outputArgs, flag,
                       line)
      [] OTHER -> env

\* main.ts:140-149: the head is unknown and arguments follow
notFoundWithArgs(env, root, args, outputArgs, flag, line) ==
    processOutput(env, OutputCall(root \o <<":", SP>> \o args[1] \o <<" not found">>,
                                  TRUE, shouldWriteOf(outputArgs),
                                  writePathOf(outputArgs), flag, line))

\* main.ts:151-159: the head is unknown and nothing follows it
commandNotFound(env, tokens, outputArgs, flag, line) ==
    processOutput(env, OutputCall(Join(tokens, <<SP>>) \o <<": command not found">>,
                                  TRUE, shouldWriteOf(outputArgs),
                                  writePathOf(outputArgs), flag, line))

\* An exit that rewrites the history file with the session's entries.
exitStreamTruncating(entries, line) ==
    [path |-> historyFilePath, flags |-> "w",
     data |-> Join(entries, <<NL>>) \o <<NL>>,
     phase |-> "open", onFinish |-> "exit", content |-> <<>>, isError |-> FALSE,
     redirection |-> undefined, line |-> line]

\* main.ts:534-556: an exit word.  The entries read in this session go to
\* the history file through a stream opened for appending; the process
\* exits when the stream has finished (StreamClose) or failed (StreamOpen).
exitStream(entries, line) ==
    [path |-> historyFilePath, flags |-> "a",
     data |-> Join(entries, <<NL>>) \o <<NL>>,
     phase |-> "open", onFinish |-> "exit", content |-> <<>>, isError |-> FALSE,
     redirection |-> undefined, line |-> line]

\* main.ts:121-160: what processLine does with a line's tokens: the terminal
\* and write streams afterwards, redirectionFlag, the execFile it started (if
\* any), whether it called promptUser and whether it threw.  entries are the
\* history entries an exit word flushes.
processLine(env, tokens, flag, line, entries) ==
    LET r == extractRedirection(tokens, flag)
    IN  IF r.root # undefined /\ isEscapeCommand(r.root)
        THEN \* 133-136, 534-556
             [env |-> [env EXCEPT !.streams = Append(@, exitStream(entries, line))],
              redirectionFlag |-> r.redirectionFlag, exec |-> <<>>, prompt |-> FALSE,
              thrown |-> FALSE]
        ELSE IF r.root # undefined /\ isShellCommand(r.root)
        THEN \* 133-136, 558-576
             IF builtinThrows(r.root, r.args)
             THEN [env |-> [env EXCEPT !.stderr =
                               Append(@, [line |-> line, text |-> UncaughtTrace])],
                   redirectionFlag |-> r.redirectionFlag, exec |-> <<>>,
                   prompt |-> FALSE, thrown |-> TRUE]
             ELSE [env |-> runBuiltin(env, r.root, r.args, r.outputArgs,
                                      r.redirectionFlag, line),
                   redirectionFlag |-> r.redirectionFlag, exec |-> <<>>,
                   prompt |-> TRUE, thrown |-> FALSE]
        ELSE IF isExecutable(r.root)
        THEN \* 137-139, 495-497
             [env |-> env, redirectionFlag |-> r.redirectionFlag,
              exec |-> << [line |-> line, outputArgs |-> r.outputArgs] >>,
              prompt |-> FALSE, thrown |-> FALSE]
        ELSE IF r.root # undefined /\ Len(r.args) > 0
        THEN \* 140-149
             [env |-> notFoundWithArgs(env, r.root, r.args, r.outputArgs,
                                       r.redirectionFlag, line),
              redirectionFlag |-> r.redirectionFlag, exec |-> <<>>, prompt |-> TRUE,
              thrown |-> FALSE]
        ELSE IF r.root # undefined
        THEN \* 151-159
             [env |-> commandNotFound(env, tokens, r.outputArgs,
                                      r.redirectionFlag, line),
              redirectionFlag |-> r.redirectionFlag, exec |-> <<>>, prompt |-> TRUE,
              thrown |-> FALSE]
        ELSE \* no token: nothing is written and promptUser is not called
             [env |-> env, redirectionFlag |-> r.redirectionFlag, exec |-> <<>>,
              prompt |-> FALSE, thrown |-> FALSE]

(***************************************************************************)
(* Pipelines, main.ts:258-461.                                             *)
(***************************************************************************)
PIPE == <<"|">>
PIPEERR == <<"|", "&">>

RECURSIVE splitPipeCommands(_)
\* utils (imported at main.ts:7): the stages of a token list, each with its
\* tokens (process) and the fd its outgoing operator pipes on (2 after |&)
splitPipeCommands(tokens) ==
    IF \E i \in 1..Len(tokens) : tokens[i] \in {PIPE, PIPEERR}
    THEN LET i == CHOOSE j \in 1..Len(tokens) :
                     /\ tokens[j] \in {PIPE, PIPEERR}
                     /\ \A h \in 1..(j - 1) : tokens[h] \notin {PIPE, PIPEERR}
         IN  << [process |-> SubSeq(tokens, 1, i - 1),
                 fd |-> IF tokens[i] = PIPEERR THEN 2 ELSE 1] >>
             \o splitPipeCommands(SubSeq(tokens, i + 1, Len(tokens)))
    ELSE << [process |-> tokens, fd |-> 1] >>

\* main.ts:282-312: the type built-in as a pipeline stage
typeStage(env, args) ==
    LET checkCommand == IF args = <<>> THEN <<>> ELSE args[1]
        pathVariable == IF env.PATH = undefined THEN <<>> ELSE env.PATH  \* 290
        dirs == split(pathVariable, ":")
        found == \E i \in 1..Len(dirs) : pathJoin(dirs[i], checkCommand) \in env.executables
    IN  IF checkCommand = <<>>
        THEN [stdout |-> <<>>, stderr |-> <<"type: please include an argument", NL>>,
              exitCode |-> 1, workdir |-> env.workdir]
        ELSE IF isShellCommand(checkCommand)
        THEN [stdout |-> checkCommand \o <<" is a shell builtin", NL>>,
              stderr |-> <<>>, exitCode |-> 0, workdir |-> env.workdir]
        ELSE IF found
        THEN [stdout |-> checkCommand \o <<NL>>, stderr |-> <<>>, exitCode |-> 0,
              workdir |-> env.workdir]                               \* 298
        ELSE [stdout |-> <<>>,
              stderr |-> <<"type: ">> \o checkCommand \o <<" not found", NL>>,
              exitCode |-> 1, workdir |-> env.workdir]               \* 307

\* main.ts:319-329: the cd built-in as a pipeline stage
cdStage(env, args) ==
    LET dir == IF args = <<>> THEN homedir ELSE args[1]              \* 320
        target == resolveIn(env.workdir, dir)
    IN  IF accessSync(target) /\ chdirWorks(chdirTarget(target))
        THEN [stdout |-> <<>>, stderr |-> <<>>, exitCode |-> 0,
              workdir |-> chdirTarget(target)]
        ELSE [stdout |-> <<>>,
              stderr |-> <<"cd: ">> \o target \o <<": No such file or directory", NL>>,
              exitCode |-> 1, workdir |-> env.workdir]

\* main.ts:273-417: what a built-in stage other than history writes, the
\* code it closes with and the working directory it leaves
builtinStage(env, command, args) ==
    CASE command = echo ->
            [stdout |-> Join(args, <<SP>>) \o <<NL>>, stderr |-> <<>>, exitCode |-> 0,
             workdir |-> env.workdir]
      [] command = type -> typeStage(env, args)
      [] command = pwd ->
            [stdout |-> env.workdir \o <<NL>>, stderr |-> <<>>, exitCode |-> 0,
             workdir |-> env.workdir]
      [] command = cd -> cdStage(env, args)
      [] OTHER ->
            [stdout |-> <<>>,
             stderr |-> command \o <<": command not found", NL>>, exitCode |-> 1,
             workdir |-> env.workdir]

\* utils.ts:21: what parseFlag(args, flag, 1) leaves of args
argsAfterParseFlag(args, flag) ==
    LET flagIndex == indexOf(args, flag)
    IN  IF flagIndex = 0 \/ flagIndex + 1 > Len(args) THEN args
        ELSE SubSeq(args, 1, flagIndex) \o SubSeq(args, flagIndex + 2, Len(args))

\* main.ts:337-388: one flag of a history stage.  st holds the stage's args
\* and historyData (both spliced as it goes), the store, the cursor and
\* what the stage has written.
historyStageFlag(st, f, files) ==
    LET flagPath == flagPathOf(st.args, f)
        st1 == [st EXCEPT !.args = argsAfterParseFlag(@, f)]
        noPath == [st1 EXCEPT
                     !.stderr = @ \o <<"history: No file path provided with ">>
                                  \o f \o <<" flag", NL>>,
                     !.exitCode = 1]
    IN  CASE f = DASH_R ->
               IF flagPath = undefined THEN noPath
               ELSE IF readable(files, flagPath)
               THEN [st1 EXCEPT !.history = loadLines(@, splitLines(files[flagPath]))]
               ELSE [st1 EXCEPT !.stderr = @ \o ReadErrorMessage(flagPath) \o <<NL>>,
                                !.exitCode = 1]
          [] f = DASH_W ->
               IF flagPath = undefined THEN noPath
               ELSE [st1 EXCEPT !.stdout = @ \o Join(st.historyData, <<NL>>) \o <<NL>>]
          [] f = DASH_A ->
               IF flagPath = undefined THEN noPath
               ELSE LET appendedHistoryData ==
                            spliceFrom(st.historyData, st.previousAppendSize)
                    IN  [st1 EXCEPT
                           !.historyData = SubSeq(@, 1, Len(@) - Len(appendedHistoryData)),
                           !.stdout = @ \o Join(appendedHistoryData, <<NL>>) \o <<NL>>,
                           !.previousAppendSize =
                               appendCursorAfter(@, Len(appendedHistoryData))]
          [] OTHER -> st

RECURSIVE historyStageFlags(_, _, _)
historyStageFlags(st, flags, files) ==
    IF flags = <<>> THEN st
    ELSE historyStageFlags(historyStageFlag(st, Head(flags), files), Tail(flags), files)

\* main.ts:390-397: the listing of a history stage
RECURSIVE stageListing(_, _, _)
stageListing(h, keys, lastN) ==
    IF keys = {} THEN <<>>
    ELSE LET k == CHOOSE x \in keys : \A y \in keys : x <= y
         IN  (IF lastN # NaN /\ k > historySize(h) - lastN
              THEN <<"    ", ToString(k), "  ">> \o h[k] \o <<NL>>
              ELSE <<>>) \o stageListing(h, keys \ {k}, lastN)

\* main.ts:331-401: the history built-in as a pipeline stage
historyStage(h, prev, files, args) ==
    LET st0 == [args |-> args, historyData |-> historyValues(h), history |-> h,
                previousAppendSize |-> prev, stdout |-> <<>>, stderr |-> <<>>,
                exitCode |-> 0]
        flags == hasFlagsOf(args)
    IN  IF Len(flags) > 0
        THEN historyStageFlags(st0, flags, files)
        ELSE [st0 EXCEPT !.stdout =
                 stageListing(h, DOMAIN h,
                              IF args # <<>> /\ args[1] # <<>> THEN parseInt(args[1])
                              ELSE historySize(h))]

\* main.ts:273-417: what the body of a built-in stage writes, its exit code,
\* and the store, the cursor and the working directory it leaves
runStage(env, command, args) ==
    IF command = historyWord
    THEN LET st == historyStage(env.history, env.previousAppendSize, env.files, args)
         IN  [stdout |-> st.stdout, stderr |-> st.stderr, exitCode |-> st.exitCode,
              history |-> st.history, previousAppendSize |-> st.previousAppendSize,
              workdir |-> env.workdir]
    ELSE LET b == builtinStage(env, command, args)
         IN  [stdout |-> b.stdout, stderr |-> b.stderr, exitCode |-> b.exitCode,
              history |-> env.history, previousAppendSize |-> env.previousAppendSize,
              workdir |-> b.workdir]

\* the streams a pipe can end in: the stdin of a stage, or a stream of the
\* shell's own process (stage 0)
StdinOf(k) == [stage |-> k, stream |-> "stdin"]
ProcessStream(stream) == [stage |-> 0, stream |-> stream]

\* A wiring that connects the stdout of every stage, whatever its operator.
sourceStreamAlwaysStdout(fd) == "stdout"

\* main.ts:432-436: the stream of a stage that is piped on
sourceStream(fd) == IF fd = 2 THEN "stderr" ELSE "stdout"

\* main.ts:431-439: the pipes handlePipelines creates, each from a stream of
\* a stage to where it ends
wire(lines) ==
    [k \in 1..(Len(lines) - 1) |->
        [from |-> k, stream |-> sourceStream(lines[k].fd), to |-> StdinOf(k + 1)]]
    \o << [from |-> Len(lines), stream |-> "stdout", to |-> ProcessStream("stdout")],
          [from |-> Len(lines), stream |-> "stderr", to |-> ProcessStream("stderr")] >>

\* whether a stream of stage k is piped to the given end
pipedTo(connections, k, stream, end) ==
    \E c \in 1..Len(connections) :
        /\ connections[c].from = k
        /\ connections[c].stream = stream
        /\ connections[c].to = end

\* main.ts:424-429: the processes of a pipeline, as handlePipelines keeps them
newPipeline(tokens, line) ==
    LET lines == splitPipeCommands(tokens)
    IN  [line |-> line,
         settled |-> FALSE,
         connections |-> wire(lines),
         stages |-> [k \in 1..Len(lines) |->
            [command |-> lines[k].process[1],
             args |-> Tail(lines[k].process),
             fd |-> lines[k].fd,
             builtin |-> isShellCommand(lines[k].process[1]),
             state |-> "running",
             promise |-> "pending",
             stdin |-> <<>>, stdout |-> <<>>, stderr |-> <<>>,
             handlers |-> {"close", "error"},                        \* 442-446
             events |-> <<>>, codes |-> <<>>]]]

\* the exit codes of an external stage
ExitCodes == {0, 1}

\* main.ts:444
exitMessage(code) ==
    <<"Process exited with code ",
      IF code = 0 THEN "0" ELSE IF code = 1 THEN "1" ELSE "-2">>
\* the message of the error a failed spawn emits
spawnMessage(command) == <<"spawn ">> \o command \o <<" ENOENT">>

\* A combinator that runs its handler at every rejection.
rejectionHandledEveryTime(p, k) == TRUE

\* Promise.all(...).catch, main.ts:441-460: the rejection of stage k's
\* promise reaches the catch handler when it is the first settlement of that
\* promise and the first rejection of all
rejectionHandled(p, k) == p.stages[k].promise = "pending" /\ ~p.settled

\* Promise.all(...).then, main.ts:441-453: the resolution of stage k's
\* promise reaches the then handler when it is the last one outstanding
resolutionHandled(p, k) ==
    /\ p.stages[k].promise = "pending"
    /\ ~p.settled
    /\ \A j \in 1..Len(p.stages) : j # k => p.stages[j].promise = "resolved"

(***************************************************************************)
(* Tab completion, main.ts:14-59 and 462-482, utils.ts:1-12 and 28-68.     *)
(***************************************************************************)
\* String.prototype.indexOf(prefix) === 0
startsWith(str, prefix) == Len(prefix) <= Len(str) /\ SubSeq(str, 1, Len(prefix)) = prefix

\* A cut that takes one character off and stops.
cutOnce(prefix, str) ==
    IF startsWith(str, prefix) THEN prefix ELSE SubSeq(prefix, 1, Len(prefix) - 1)

\* utils.ts:6-9: the prefix is cut from the right until str starts with it
RECURSIVE cutToPrefixOf(_, _)
cutToPrefixOf(prefix, str) ==
    IF startsWith(str, prefix) THEN prefix
    ELSE IF Len(prefix) <= 1 THEN <<>>
    ELSE cutToPrefixOf(SubSeq(prefix, 1, Len(prefix) - 1), str)

RECURSIVE findLCPFrom(_, _)
findLCPFrom(prefix, strings) ==
    IF strings = <<>> THEN prefix
    ELSE LET cut == cutToPrefixOf(prefix, Head(strings))
         IN  IF cut = <<>> THEN <<>> ELSE findLCPFrom(cut, Tail(strings))

\* utils.ts:1-12
findLCP(strings) ==
    IF Len(strings) = 0 THEN <<>> ELSE findLCPFrom(strings[1], Tail(strings))

\* utils.ts:28-35: a trie is its nodes, each named by the path of characters
\* that leads to it, and the nodes with isEnd set
EmptyTrie == [nodes |-> {<<>>}, ends |-> {}]

\* utils.ts:36-43
insert(t, word) ==
    [nodes |-> t.nodes \cup {SubSeq(word, 1, k) : k \in 0..Len(word)},
     ends |-> t.ends \cup {word}]

RECURSIVE insertAll(_, _)
insertAll(t, words) ==
    IF words = <<>> THEN t ELSE insertAll(insert(t, Head(words)), Tail(words))

\* utils.ts:47-54: whether the node is found, and its isEnd
search(t, word) == [found |-> word \in t.nodes, isEnd |-> word \in t.ends]

\* the order of UTF-16 code units on the characters of the words
CodeUnits ==
    <<SP, "a", "b", "c", "d", "e", "f", "g", "h", "i", "j", "k", "l", "m",
      "n", "o", "p", "q", "r", "s", "t", "u", "v", "w", "x", "y", "z">>

RECURSIVE lessThan(_, _)
lessThan(a, b) ==
    IF b = <<>> THEN FALSE
    ELSE IF a = <<>> THEN TRUE
    ELSE IF Head(a) = Head(b) THEN lessThan(Tail(a), Tail(b))
    ELSE indexOf(CodeUnits, Head(a)) < indexOf(CodeUnits, Head(b))

\* Array.prototype.sort() of distinct strings
RECURSIVE sort(_)
sort(words) ==
    IF words = {} THEN <<>>
    ELSE LET least == CHOOSE w \in words : \A v \in words \ {w} : lessThan(w, v)
         IN  <<least>> \o sort(words \ {least})

\* the children of the node of word.  The Map keeps them in insertion
\* order; they are walked here in the order of their characters, which is
\* the order every caller of autocomplete sorts a result of several words
\* into (main.ts:474, 481).
children(t, word) ==
    sort({n \in t.nodes : Len(n) = Len(word) + 1 /\ startsWith(n, word)})

\* utils.ts:60-67: the words at and below the node of word, the node first,
\* then what the walk of each child collects
RECURSIVE collect(_, _)
RECURSIVE collectEach(_, _)
collectEach(t, nodes) ==
    IF nodes = <<>> THEN <<>>
    ELSE collect(t, Head(nodes)) \o collectEach(t, Tail(nodes))

collect(t, word) ==
    (IF word \in t.ends THEN <<word>> ELSE <<>>) \o collectEach(t, children(t, word))

\* A walk that leaves out the node it starts at.
autocompleteBelow(t, prefix) ==
    IF ~search(t, prefix).found THEN <<>>
    ELSE collectEach(t, children(t, prefix))

\* utils.ts:55-59
autocomplete(t, prefix) ==
    IF ~search(t, prefix).found THEN <<>>
    ELSE collect(t, prefix)

\* main.ts:462-482
handleTabCompletion(t, line) ==
    IF Len(line) = 0 THEN [matches |-> <<>>, input |-> line]
    ELSE LET input == trim(line)
             matches == autocomplete(t, input)
         IN  IF Len(matches) = 0 THEN [matches |-> <<>>, input |-> input]
             ELSE IF search(t, input).isEnd
             THEN IF Len(matches) = 1
                  THEN [matches |-> <<input \o <<SP>> >>, input |-> input]
                  ELSE [matches |-> sort(Range(matches)), input |-> input]  \* 474
             ELSE IF Len(matches) = 1
             THEN [matches |-> <<matches[1] \o <<SP>> >>, input |-> input]
             ELSE [matches |-> sort(Range(matches)), input |-> input]       \* 481

\* process.stdout.columns || 80
columns == 80

\* String.prototype.padEnd
padEnd(str, n) == str \o [k \in 1..(n - Len(str)) |-> SP]

RECURSIVE maxLen(_)
maxLen(words) ==
    IF words = <<>> THEN 0
    ELSE IF Len(Head(words)) > maxLen(Tail(words)) THEN Len(Head(words))
    ELSE maxLen(Tail(words))

RECURSIVE rowsOf(_, _, _)
rowsOf(matches, perRow, maxLength) ==
    IF matches = <<>> THEN <<>>
    ELSE LET n == IF perRow < Len(matches) THEN perRow ELSE Len(matches)
             row == [k \in 1..n |-> padEnd(matches[k], maxLength)]
         IN  <<Join(row, <<>>) \o <<NL>> >>
             \o rowsOf(SubSeq(matches, n + 1, Len(matches)), perRow, maxLength)

\* main.ts:44-52: what is written to process.stdout to show the matches
matchList(matches) ==
    LET maxLength == maxLen(matches) + 2
        perRow == columns \div maxLength
    IN  << <<NL>> >> \o rowsOf(matches, perRow, maxLength)

\* main.ts:44: process.stdout.columns || 80 (0 stands for undefined)
columnsOf(stdoutColumns) == IF stdoutColumns = 0 THEN columns ELSE stdoutColumns

\* main.ts:45-46: Math.floor(columns / maxLength)
perRowOf(matches, stdoutColumns) == columnsOf(stdoutColumns) \div (maxLen(matches) + 2)

\* Array.prototype.slice(start, end), indices from 0
slice(arr, start, end) ==
    SubSeq(arr, start + 1, IF end < Len(arr) THEN end ELSE Len(arr))

\* main.ts:50-51: the row of one iteration and what it writes
listRow(matches, i, perRow) ==
    LET row == slice(matches, i, i + perRow)
    IN  [row |-> row,
         text |-> Join([k \in 1..Len(row) |-> padEnd(row[k], maxLen(matches) + 2)],
                       <<>>) \o <<NL>>]

\* A double-tab memory that an LCP completion does not touch.
rememberedAfterLCPUnchanged(last, lcp, now) == last

\* main.ts:32: what is remembered after an LCP completion
rememberedAfterLCP(last, lcp, now) == [line |-> lcp, timestamp |-> now]

\* A completer that gives a single match without the space after it.
singleMatchWithoutSpace(matches) == <<SubSeq(matches[1], 1, Len(matches[1]) - 1)>>

\* main.ts:22-25: the completions of a single match
singleMatch(matches) == matches

\* main.ts:14-59.  last is lastCompletion, now is Date.now().  The result
\* holds what readline gets (completions, input), whether the bell was
\* played, what was written to stdout, and lastCompletion afterwards.
completer(t, last, line, now) ==
    LET h == handleTabCompletion(t, line)
        matches == h.matches
        input == h.input
        lcp == findLCP(matches)
        isSecondTab == last.line = line /\ (now - last.timestamp) < 1000
        result(completions, bell, printed, newLast) ==
            [completions |-> completions, input |-> input, bell |-> bell,
             printed |-> printed, last |-> newLast]
    IN  IF Len(matches) = 0 THEN result(<<>>, TRUE, <<>>, last)
        ELSE IF Len(matches) = 1 THEN result(singleMatch(matches), FALSE, <<>>, last)
        ELSE IF Len(lcp) > Len(input)
        THEN result(<<lcp>>, FALSE, <<>>, rememberedAfterLCP(last, lcp, now))
        ELSE IF ~isSecondTab
        THEN result(<<>>, TRUE, <<>>, [line |-> line, timestamp |-> now])
        ELSE result(<<>>, FALSE, matchList(matches), [line |-> line, timestamp |-> now])

\* main.ts:93-96: the entries of one directory, in the order readdirSync
\* gives them.  accessSync throws at the first entry that is not executable;
\* the exception leaves map and is caught outside it (main.ts:98).
RECURSIVE insertEntries(_, _)
insertEntries(t, entries) ==
    IF entries = <<>> THEN t
    ELSE IF ~Head(entries).executable THEN t
    ELSE insertEntries(insert(t, Head(entries).name), Tail(entries))

\* main.ts:91-100: the directories of the search path; readdirSync throws
\* for one that cannot be read
RECURSIVE insertDirs(_, _)
insertDirs(t, dirs) ==
    IF dirs = <<>> THEN t
    ELSE insertDirs(IF Head(dirs).accessible
                    THEN insertEntries(t, Head(dirs).entries) ELSE t,
                    Tail(dirs))

\* main.ts:64-65, 88: [...shellCommands.escape, ...shellCommands.builtin]
commandWords ==
    <<<<"e", "x", "i", "t">>, <<"q", "u", "i", "t">>, <<"q">>,
      <<"e", "s", "c", "a", "p", "e">>, <<"e", "s", "c">>,
      echo, type, pwd, cd, historyWord>>

\* main.ts:87-101: the trie init leaves, for a search path given as its
\* directories, each accessible or not and with its entries
initTrie(dirs) == insertDirs(insertAll(EmptyTrie, commandWords), dirs)

\* the search path of PathDirs and ExecutableFiles: /b, which holds x
DefaultListing ==
    << [accessible |-> TRUE,
        entries |-> << [name |-> <<"x">>, executable |-> TRUE] >>] >>

(***************************************************************************)
(* State.                                                                  *)
(***************************************************************************)
VARIABLES
    history,            \* main.ts:76: the entries, entry i at index i
    historySizeOnLoad,  \* main.ts:78
    previousAppendSize, \* main.ts:79
    workdir,            \* process.cwd()
    redirectionFlag,    \* main.ts:71
    question,           \* whether rl.question waits for a line (main.ts:108)
    proc,               \* "running", or how the process ended: "exit0", "exit1",
                        \* "uncaught" (an error no handler caught)
    prompts,            \* per line read, the calls of promptUser made for it
    execs,              \* the execFile calls whose callback has not run
    pipes,              \* the pipelines started, with each stage's state
    files,              \* the content of each file of Files, or NoFile
    streams,            \* the fs.WriteStream objects that are not closed yet
    stdout,             \* what was written to process.stdout, in order
    stderr,             \* what was written to process.stderr, in order
    fmtLine,            \* the line handed to handleFormatting on its own
    fmtTokens,          \* what it returned
    fmtDone,            \* whether it has returned
    plTokens,           \* the tokens handed to processLine's extraction on its own
    plResult,           \* the head, arguments and redirection tokens it left
    plDone,             \* whether it has run
    outCalls,           \* the calls of processOutput made on its own
    rtPhase,            \* how far a write of the store and a restart have come
    rtLoaded,           \* the store of the restarted shell after its load
    pathListing,        \* the directories of the search path with their entries
    trie,               \* main.ts:73
    lastCompletion,     \* main.ts:74
    now,                \* Date.now(), in milliseconds
    tabs,               \* the completion requests made and what each gave
    envPATH,            \* process.env.PATH, or undefined
    executables,        \* the files fs.accessSync(file, X_OK) accepts
    list,               \* the loop that prints the match list, main.ts:44-52
    utilCall            \* a call of a function of utils.ts on its own

sessionVars == <<history, historySizeOnLoad, previousAppendSize, workdir, question,
                 proc, prompts, execs, pipes>>
outputVars == <<files, streams, stdout, stderr>>
fmtVars == <<fmtLine, fmtTokens, fmtDone>>
plVars == <<plTokens, plResult, plDone>>
rtVars == <<rtPhase, rtLoaded>>
tabVars == <<pathListing, trie, lastCompletion, now, tabs>>
envVars == <<envPATH, executables>>
listVars == <<list>>
utilVars == <<utilCall>>
extraVars == <<rtVars, tabVars, envVars, listVars, utilVars>>
harnessVars == <<fmtLine, fmtTokens, fmtDone, plTokens, plResult, plDone, outCalls,
                 extraVars>>
vars == <<history, historySizeOnLoad, previousAppendSize, workdir, redirectionFlag,
          question,
          proc, prompts,
          execs, pipes, files, streams, stdout, stderr,
          fmtLine, fmtTokens, fmtDone, plTokens, plResult, plDone, outCalls,
          extraVars>>

\* main.ts:81-104: the session after init, with a history file that holds no
\* entry: the first prompt is out and nothing has been read
SessionStart ==
    /\ history = <<>>
    /\ historySizeOnLoad = 0
    /\ previousAppendSize = 0
    /\ workdir = cwd
    /\ question = TRUE
    /\ proc = "running"
    /\ prompts = <<>>
    /\ execs = <<>>
    /\ pipes = <<>>

\* the shell right after start, before any line
ShellStart ==
    /\ SessionStart
    /\ redirectionFlag = undefined
    /\ files = [f \in Files |-> IF f = historyFilePath THEN <<>> ELSE NoFile]
    /\ streams = <<>>
    /\ stdout = <<>>
    /\ stderr = <<>>

FmtIdle == fmtLine = <<>> /\ fmtTokens = <<>> /\ fmtDone = FALSE
PlIdle == plTokens = <<>> /\ plResult = <<>> /\ plDone = FALSE
OutIdle == outCalls = 0
RtIdle == rtPhase = "idle" /\ rtLoaded = <<>>
\* main.ts:73-74; the clock starts well past the first second
StartTime == 5000
TabIdle ==
    /\ pathListing = <<>> /\ trie = EmptyTrie
    /\ lastCompletion = [line |-> <<>>, timestamp |-> 0]
    /\ now = StartTime /\ tabs = <<>>
\* the environment of the sessions: PATH is /b, which holds the executable x
EnvDefault == envPATH = DefaultPATH /\ executables = ExecutableFiles
\* no match list is being printed
ListIdle ==
    list = [phase |-> "idle", matches |-> <<>>, columns |-> 0, i |-> 0, rows |-> <<>>]
\* no function of utils.ts is called on its own
UtilIdle ==
    utilCall = [function |-> "none", args |-> <<>>, result |-> <<>>, returned |-> FALSE]
ExtraIdle == RtIdle /\ TabIdle /\ EnvDefault /\ ListIdle /\ UtilIdle

(***************************************************************************)
(* Write streams, main.ts:217-234: fs.createWriteStream returns at once;   *)
(* the open, the write and the close are separate, later steps, and the    *)
(* steps of two streams interleave.                                        *)
(***************************************************************************)
\* a sequence without its element i
RemoveAt(s, i) == SubSeq(s, 1, i - 1) \o SubSeq(s, i + 1, Len(s))

\* the terminal streams and the write streams, as processOutput takes them,
\* with the history store and the append cursor a built-in may change and
\* the files a built-in may read and the working directory
CurrentEnv ==
    [stdout |-> stdout, stderr |-> stderr, streams |-> streams,
     history |-> history, previousAppendSize |-> previousAppendSize, files |-> files,
     workdir |-> workdir, PATH |-> envPATH, executables |-> executables]

\* fs.createWriteStream's open fails
cannotOpen(fs, file) == openFails(file) \/ (file \in DOMAIN fs /\ fs[file] = Locked)

\* what a write of data at offset 0 leaves of a file's content
writeAtStart(content, data) == data \o SubSeq(content, Len(data) + 1, Len(content))

\* The open of stream i completes.  Flags 'w' create or truncate the file,
\* flags 'a' create it when absent.  A failed open destroys the stream: the
\* pending write's callback gets the error (main.ts:220-227) and 'error' is
\* emitted (main.ts:229-234); each reports the message on stderr.
StreamOpen(i) ==
    /\ proc = "running"
    /\ streams[i].phase = "open"
    /\ proc' = IF cannotOpen(files, streams[i].path) /\ streams[i].onFinish = "exit"
               THEN "exit1" ELSE proc
    /\ IF cannotOpen(files, streams[i].path)
       THEN LET env1 == toTerminal([CurrentEnv EXCEPT !.streams = RemoveAt(streams, i)],
                                   OpenErrorMessage, TRUE, streams[i].line)
                env2 == toTerminal(env1, OpenErrorMessage, TRUE, streams[i].line)
            IN  /\ streams' = env2.streams
                /\ stderr' = env2.stderr
                /\ stdout' = env2.stdout
                /\ UNCHANGED files
       ELSE /\ files' = [files EXCEPT ![streams[i].path] =
                            IF streams[i].flags = "w" \/ @ = NoFile THEN <<>> ELSE @]
            /\ streams' = [streams EXCEPT ![i].phase = "write"]
            /\ UNCHANGED <<stdout, stderr>>
    /\ UNCHANGED <<history, historySizeOnLoad, previousAppendSize, question, prompts,
                   execs, pipes, redirectionFlag, harnessVars, workdir>>

\* The write of stream i completes: flags 'a' write at the end of the file,
\* flags 'w' at the stream's own offset, which is 0.  The callback then ends
\* the stream (main.ts:227).
StreamWrite(i) ==
    /\ proc = "running"
    /\ streams[i].phase = "write"
    /\ files' = [files EXCEPT ![streams[i].path] =
                    IF streams[i].flags = "a"
                    THEN @ \o streams[i].data
                    ELSE writeAtStart(@, streams[i].data)]
    /\ streams' = [streams EXCEPT ![i].phase = "end"]
    /\ UNCHANGED <<stdout, stderr, redirectionFlag, sessionVars, harnessVars>>

\* Stream i has finished and is closed: its descriptor is released and the
\* object is dropped.  The stream of an exit word then ends the process
\* (main.ts:543-546).
StreamClose(i) ==
    /\ proc = "running"
    /\ streams[i].phase = "end"
    /\ streams' = RemoveAt(streams, i)
    /\ proc' = IF streams[i].onFinish = "exit" THEN "exit0" ELSE proc
    /\ UNCHANGED <<files, stdout, stderr, redirectionFlag, history,
                   historySizeOnLoad, previousAppendSize, question, prompts, execs,
                   pipes, harnessVars, workdir>>

StreamStep ==
    \E i \in 1..Len(streams) : StreamOpen(i) \/ StreamWrite(i) \/ StreamClose(i)

(***************************************************************************)
(* handleFormatting on its own: every line over the tokenizer's alphabet.  *)
(***************************************************************************)
\* the character classes the tokenizer tells apart; "a" stands for the rest
FmtAlphabet == {SQ, DQ, BS, TILDE, DOLLAR, BQ, SP, TAB, "a"}

FmtInit ==
    /\ fmtLine \in SeqUpTo(FmtAlphabet, MaxLen)
    /\ fmtTokens = <<>>
    /\ fmtDone = FALSE
    /\ ShellStart /\ PlIdle /\ OutIdle /\ ExtraIdle

\* const tokens = handleFormatting(line), main.ts:113
FmtRun ==
    /\ ~fmtDone
    /\ fmtTokens' = handleFormatting(fmtLine)
    /\ fmtDone' = TRUE
    /\ UNCHANGED <<fmtLine, redirectionFlag, sessionVars, outputVars, plVars, outCalls,
                   extraVars>>

FmtNext == FmtRun

SpecFmt == FmtInit /\ [][FmtNext]_vars

(***************************************************************************)
(* processLine's redirection extraction on its own: every short token      *)
(* list over two ordinary tokens and the six operators.                    *)
(***************************************************************************)
PlAlphabet == {<<"a">>, <<"b">>} \cup Range(redirectionOptions)

PlInit ==
    /\ plTokens \in SeqUpTo(PlAlphabet, MaxTokens)
    /\ plResult = <<>>
    /\ plDone = FALSE
    /\ redirectionFlag \in {undefined, <<"2", ">", ">">>}
    /\ files = [f \in Files |-> NoFile]
    /\ streams = <<>> /\ stdout = <<>> /\ stderr = <<>>
    /\ SessionStart /\ FmtIdle /\ OutIdle /\ ExtraIdle

\* main.ts:122-131
PlRun ==
    /\ ~plDone
    /\ LET r == extractRedirection(plTokens, redirectionFlag)
       IN  /\ plResult' = [root |-> r.root, args |-> r.args, outputArgs |-> r.outputArgs]
           /\ redirectionFlag' = r.redirectionFlag
    /\ plDone' = TRUE
    /\ UNCHANGED <<plTokens, sessionVars, outputVars, fmtVars, outCalls, extraVars>>

PlNext == PlRun

SpecLine == PlInit /\ [][PlNext]_vars

(***************************************************************************)
(* processOutput on its own: a few calls with any arguments, and the       *)
(* steps of the streams they open, in any order.                           *)
(***************************************************************************)
OutContents == {<<"a">>, <<"b", "b">>}
OutPaths == {TargetF, TargetN, TargetR}

OutInit ==
    /\ files \in [Files -> {NoFile, <<"x">>}]
    /\ \A f \in Files : f # processedWritePathOf(TargetF) => files[f] = NoFile
    /\ streams = <<>> /\ stdout = <<>> /\ stderr = <<>>
    /\ redirectionFlag = undefined
    /\ outCalls = 0
    /\ SessionStart /\ FmtIdle /\ PlIdle /\ ExtraIdle

\* processOutput({content, isError, shouldWrite, writePath, redirection})
OutCall ==
    /\ outCalls < MaxCalls
    /\ \E content \in OutContents, isError \in BOOLEAN, shouldWrite \in BOOLEAN,
          writePath \in OutPaths,
          redirection \in Range(redirectionOptions) \cup {undefined} :
          LET env == processOutput(CurrentEnv,
                        OutputCall(content, isError, shouldWrite, writePath,
                                   redirection, outCalls + 1))
          IN  /\ streams' = env.streams
              /\ stdout' = env.stdout
              /\ stderr' = env.stderr
    /\ outCalls' = outCalls + 1
    /\ UNCHANGED <<files, redirectionFlag, sessionVars, fmtVars, plVars, extraVars>>

OutNext == OutCall \/ StreamStep

SpecOut == OutInit /\ [][OutNext]_vars

(***************************************************************************)
(* The session: lines read at the prompt, execFile callbacks and the       *)
(* events of pipeline stages.                                              *)
(***************************************************************************)
\* promptUser for line n, main.ts:107-109.  rl.question registers the
\* callback; called while one is registered it registers nothing more.
prompted(n) == [prompts EXCEPT ![n] = @ + 1]

\* main.ts:110-120 for a line without a pipe token
ProcessSingle(line, tokens) ==
    LET n == Len(prompts) + 1
        stored == historySet(history, historySize(history) + 1, line)
        entries == spliceFrom(historyValues(stored), historySizeOnLoad)
        r == processLine([CurrentEnv EXCEPT !.history = stored], tokens,
                         redirectionFlag, n, entries)
    IN  /\ redirectionFlag' = r.redirectionFlag
        /\ history' = r.env.history
        /\ previousAppendSize' = r.env.previousAppendSize
        /\ workdir' = r.env.workdir
        /\ streams' = r.env.streams
        /\ stdout' = r.env.stdout
        /\ stderr' = r.env.stderr
        /\ execs' = execs \o r.exec
        /\ prompts' = Append(prompts, IF r.prompt THEN 1 ELSE 0)
        /\ question' = r.prompt
        /\ proc' = IF r.thrown THEN "uncaught" ELSE proc
        /\ UNCHANGED pipes

\* main.ts:115-118, 421-461: the processes are created and wired, the close
\* and error handlers registered; nothing has run yet
ProcessPipeline(line, tokens) ==
    /\ pipes' = Append(pipes, newPipeline(tokens, Len(prompts) + 1))
    /\ history' = historySet(history, historySize(history) + 1, line)
    /\ prompts' = Append(prompts, 0)
    /\ question' = FALSE
    /\ UNCHANGED <<redirectionFlag, previousAppendSize, workdir, streams, stdout,
                   stderr, execs, proc>>

\* main.ts:110-120: the callback of rl.question gets a line
processInput(line) ==
    /\ proc = "running"
    /\ question
    /\ LET tokens == handleFormatting(line)
       IN  IF isPipeline(tokens)
           THEN ProcessPipeline(line, tokens)
           ELSE ProcessSingle(line, tokens)
    /\ UNCHANGED <<historySizeOnLoad, files, harnessVars>>

\* a session reads at most MaxLines lines
ProcessInput(line) == Len(prompts) < MaxLines /\ processInput(line)

\* main.ts:497-522: the callback of execFile i runs, with what the command
\* wrote and whether it failed
ExecDone(i) ==
    /\ proc = "running"
    /\ \E failed \in BOOLEAN, out \in {<<>>, ExternalStdout},
          err \in {<<>>, ExternalStderr} :
          LET e == execs[i]
              call(content, isError) ==
                  OutputCall(content, isError, shouldWriteOf(e.outputArgs),
                             writePathOf(e.outputArgs), redirectionFlag, e.line)
              env1 == IF failed /\ err = <<>>
                      THEN processOutput(CurrentEnv, call(ExecErrorMessage, TRUE))
                      ELSE CurrentEnv
              env2 == IF err # <<>> THEN processOutput(env1, call(err, TRUE)) ELSE env1
              env3 == IF out # <<>> THEN processOutput(env2, call(out, FALSE)) ELSE env2
          IN  /\ streams' = env3.streams
              /\ stdout' = env3.stdout
              /\ stderr' = env3.stderr
              /\ prompts' = prompted(e.line)
    /\ execs' = RemoveAt(execs, i)
    /\ question' = TRUE
    /\ UNCHANGED <<history, historySizeOnLoad, previousAppendSize, redirectionFlag,
                   proc, pipes, files, harnessVars, workdir>>

\* the handlers of main.ts:443-446 and 451-460 after stage k of pipeline p
\* has closed (ok iff with code 0) or has emitted 'error'; message is what
\* the promise is rejected with
StageEvent(p, k, ok, message, newState) ==
    LET pl == pipes[p]
        handled == IF ok THEN resolutionHandled(pl, k) ELSE rejectionHandled(pl, k)
        env == IF handled /\ ~ok
               THEN processOutput(CurrentEnv,
                        OutputCall(message, TRUE, FALSE, undefined, redirectionFlag,
                                   pl.line))
               ELSE CurrentEnv
    IN  /\ pipes' = [pipes EXCEPT
              ![p].stages[k].state = newState,
              ![p].stages[k].promise =
                  IF @ = "pending" THEN (IF ok THEN "resolved" ELSE "rejected") ELSE @,
              ![p].settled = @ \/ handled]
        /\ streams' = env.streams
        /\ stdout' = env.stdout
        /\ stderr' = env.stderr
        /\ prompts' = IF handled THEN prompted(pl.line) ELSE prompts
        /\ question' = (question \/ handled)

\* A callback that emits close before it ends its streams.
stageEventsCloseFirst == <<"body", "close", "end stdout", "end stderr">>

\* main.ts:273-407: what the callback of a built-in stage does, in order:
\* the switch, stdout.end(), stderr.end(), emit('close', exitCode)
stageEvents == <<"body", "end stdout", "end stderr", "close">>

\* what stage k writes that reaches the given end through the pipes
piped(connections, k, b, end) ==
    (IF pipedTo(connections, k, "stdout", end) THEN b.stdout ELSE <<>>)
    \o (IF pipedTo(connections, k, "stderr", end) THEN b.stderr ELSE <<>>)

\* the chunk a stream of the shell's process receives
stageChunk(line, text) ==
    IF text # <<>> THEN << [line |-> line, text |-> text] >> ELSE <<>>

\* main.ts:438-439: what stage k of pl wrote reaches the terminal
stageDelivered(env, pl, k, b) ==
    [env EXCEPT
       !.stdout = @ \o stageChunk(pl.line, piped(pl.connections, k, b, ProcessStream("stdout"))),
       !.stderr = @ \o stageChunk(pl.line, piped(pl.connections, k, b, ProcessStream("stderr")))]

\* main.ts:441-460: the catch handler reports the code of a failed stage
stageReported(env, line, failed, code) ==
    IF failed
    THEN processOutput(env, OutputCall(exitMessage(code), TRUE, FALSE, undefined,
                                       redirectionFlag, line))
    ELSE env

\* main.ts:273-417: what the run of stage k of pipeline p, with results b,
\* leaves: the stage closed and its promise settled, the stdin of the stage
\* it is piped to fed, the terminal written through env
stageClosed(p, k, b, handled, env) ==
    /\ pipes' = [pipes EXCEPT
          ![p].stages = [j \in DOMAIN @ |->
              IF j = k
              THEN [@[j] EXCEPT
                      !.state = "closed",
                      !.promise = IF b.exitCode = 0 THEN "resolved" ELSE "rejected",
                      !.stdout = b.stdout,
                      !.stderr = b.stderr,
                      !.events = @ \o stageEvents,
                      !.codes = Append(@, b.exitCode)]
              ELSE [@[j] EXCEPT
                      !.stdin = @ \o piped(pipes[p].connections, k, b, StdinOf(j))]],
          ![p].settled = @ \/ handled]
    /\ streams' = env.streams
    /\ stdout' = env.stdout
    /\ stderr' = env.stderr
    /\ prompts' = IF handled THEN prompted(pipes[p].line) ELSE prompts
    /\ question' = (question \/ handled)
    /\ history' = b.history
    /\ previousAppendSize' = b.previousAppendSize
    /\ workdir' = b.workdir

\* whether the settlement of stage k's promise reaches a handler of
\* Promise.all
settlementHandled(pl, k, ok) ==
    IF ok THEN resolutionHandled(pl, k) ELSE rejectionHandled(pl, k)

\* main.ts:273-417: the body of built-in stage k of pipeline p runs (it was
\* scheduled with setImmediate), ends its streams and emits close.  What the
\* last stage writes is piped to the terminal (main.ts:438-439).
stageBody(p, k, b, handled) ==
    stageClosed(p, k, b, handled,
                stageReported(stageDelivered(CurrentEnv, pipes[p], k, b),
                              pipes[p].line, handled /\ b.exitCode # 0, b.exitCode))

BuiltinStageRan(p, k, b) ==
    stageBody(p, k, b, settlementHandled(pipes[p], k, b.exitCode = 0))

BuiltinStageRun(p, k) ==
    /\ proc = "running"
    /\ pipes[p].stages[k].builtin
    /\ pipes[p].stages[k].state = "running"
    /\ BuiltinStageRan(p, k, runStage(CurrentEnv, pipes[p].stages[k].command,
                                      pipes[p].stages[k].args))
    /\ UNCHANGED <<historySizeOnLoad, redirectionFlag, proc, execs, files,
                   harnessVars>>

\* spawn could not start stage k of pipeline p (no such command): the child
\* emits 'error'
SpawnStageError(p, k) ==
    /\ proc = "running"
    /\ ~pipes[p].stages[k].builtin
    /\ pipes[p].stages[k].state = "running"
    /\ ~isExecutable(pipes[p].stages[k].command)
    /\ StageEvent(p, k, FALSE, spawnMessage(pipes[p].stages[k].command), "errored")
    /\ UNCHANGED <<history, historySizeOnLoad, previousAppendSize, redirectionFlag,
                   proc, execs, files, harnessVars, workdir>>

\* the child of stage k of pipeline p emits close: with an exit code when the
\* command ran, with a negative code after a failed spawn
SpawnStageClose(p, k) ==
    /\ proc = "running"
    /\ ~pipes[p].stages[k].builtin
    /\ \/ /\ pipes[p].stages[k].state = "running"
          /\ isExecutable(pipes[p].stages[k].command)
          /\ \E code \in ExitCodes :
                StageEvent(p, k, code = 0, exitMessage(code), "closed")
       \/ /\ pipes[p].stages[k].state = "errored"
          /\ StageEvent(p, k, FALSE, exitMessage(-2), "closed")
    /\ UNCHANGED <<history, historySizeOnLoad, previousAppendSize, redirectionFlag,
                   proc, execs, files, harnessVars, workdir>>

StageStep ==
    \E p \in 1..Len(pipes) : \E k \in 1..Len(pipes[p].stages) :
        BuiltinStageRun(p, k) \/ SpawnStageError(p, k) \/ SpawnStageClose(p, k)

\* the lines read at the prompt
UnknownCmd == <<"n">>
ExternalCmd == <<"x">>
Line(tokens) == Join(tokens, <<SP>>)

SingleLines ==
    { <<>>, <<SP>>,
      Line(<<UnknownCmd>>), Line(<<UnknownCmd, <<"a">> >>),
      Line(<<UnknownCmd, <<">">>, TargetF>>),
      Line(<<UnknownCmd, <<"2", ">">>, TargetF>>),
      Line(<<UnknownCmd, <<"a">>, <<"2", ">", ">">>, TargetF>>),
      Line(<<UnknownCmd, <<">">>, TargetN>>),
      Line(<<UnknownCmd, <<">">>, TargetR>>),
      Line(<<UnknownCmd, <<"2", ">">> >>),
      Line(<<echo>>), Line(<<echo, <<"a">> >>),
      Line(<<echo, <<"a">>, <<">">>, TargetF>>),
      Line(<<echo, <<"b", "b">>, <<">">>, TargetF>>),
      Line(<<echo, <<"a">>, <<">", ">">>, TargetF>>),
      Line(<<echo, <<"a">>, <<"2", ">">>, TargetF>>),
      Line(<<pwd>>),
      Line(<<ExternalCmd>>),
      Line(<<ExternalCmd, <<">">>, TargetF>>),
      Line(<<ExternalCmd, <<"2", ">">>, TargetF>>) }

PipeLines ==
    { Line(<<ExternalCmd, PIPE, ExternalCmd>>),
      Line(<<ExternalCmd, PIPEERR, ExternalCmd>>),
      Line(<<echo, <<"a">>, PIPE, ExternalCmd>>),
      Line(<<ExternalCmd, PIPE, UnknownCmd>>),
      Line(<<UnknownCmd, PIPE, echo, <<"a">> >>),
      Line(<<<<"q">>, PIPE, ExternalCmd>>),
      Line(<<ExternalCmd, PIPE, ExternalCmd, PIPE, pwd>>) }

ExitLines == { <<"q">> }

InputLines == SingleLines \cup PipeLines \cup ExitLines

(***************************************************************************)
(* One line  echo "X"  read by a fresh shell, for every short X of spaces, *)
(* tabs and a letter.                                                      *)
(***************************************************************************)
EchoArgs == SeqUpTo({SP, TAB, "a"}, MaxArg)

EchoLine(X) == echo \o <<SP, DQ>> \o X \o <<DQ>>

EchoInit ==
    /\ ShellStart
    /\ fmtLine \in {EchoLine(X) : X \in EchoArgs}
    /\ fmtTokens = <<>> /\ fmtDone = FALSE
    /\ PlIdle /\ OutIdle /\ ExtraIdle

EchoRun ==
    /\ prompts = <<>>
    /\ ProcessInput(fmtLine)

EchoNext == EchoRun

SpecEcho == EchoInit /\ [][EchoNext]_vars

ReadLine == \E line \in InputLines : ProcessInput(line)

(***************************************************************************)
(* Sessions about the history: the shell starts with a history file of     *)
(* some content and reads lines that use the history built-in.             *)
(***************************************************************************)
PWD_NL == pwd \o <<NL>>

\* what the history file holds when the shell starts: absent, empty, one
\* entry, two entries around a blank line and with blanks around the second,
\* or a file the user may not open
HistFileContents ==
    { NoFile, <<>>, PWD_NL, PWD_NL \o <<NL, SP>> \o echo \o <<SP, NL>>, Locked }

\* main.ts:81-85: init loads the history file, here histFile
initHistoryFrom(fs, histFile) ==
    handleHistory([stdout |-> <<>>, stderr |-> <<>>, streams |-> <<>>,
                   history |-> <<>>, previousAppendSize |-> 0, files |-> fs,
                   workdir |-> cwd, PATH |-> DefaultPATH,
                   executables |-> ExecutableFiles],
                  <<DASH_R, histFile>>, <<>>, undefined, 0)

\* main.ts:81-85: init loads the history file and takes the baseline
initHistory(fs) == initHistoryFrom(fs, historyFilePath)

HistInit ==
    /\ \E c \in HistFileContents :
          /\ files = [f \in Files |-> IF f = historyFilePath THEN c ELSE NoFile]
          /\ history = initHistory(files).history
          /\ historySizeOnLoad = historySize(initHistory(files).history)
          /\ stderr = initHistory(files).stderr
    /\ previousAppendSize = 0
    /\ workdir = cwd
    /\ question = TRUE
    /\ proc = "running"
    /\ prompts = <<>> /\ execs = <<>> /\ pipes = <<>>
    /\ redirectionFlag = undefined
    /\ streams = <<>> /\ stdout = <<>>
    /\ FmtIdle /\ PlIdle /\ OutIdle /\ ExtraIdle

HistLines ==
    { Line(<<historyWord, DASH_A, TargetF>>),
      Line(<<historyWord, DASH_W, TargetF>>),
      Line(<<historyWord, DASH_R, TargetF>>),
      Line(<<historyWord>>),
      Line(<<historyWord, <<"1">> >>),
      Line(<<echo, <<"a">>, <<"2", ">">>, TargetF>>),
      <<SP>> \o pwd,
      <<>>,
      Line(<<UnknownCmd>>),
      Line(<<historyWord, DASH_A, TargetF, PIPE, ExternalCmd>>),
      Line(<<historyWord, DASH_R, TargetF, PIPE, UnknownCmd>>),
      <<"q">> }

HistReadLine ==
    \E line \in HistLines : Len(prompts) < MaxHistLines /\ processInput(line)

HistNext == HistReadLine \/ StageStep \/ StreamStep

SpecHist == HistInit /\ [][HistNext]_vars

ExecStep == \E i \in 1..Len(execs) : ExecDone(i)

Init == ShellStart /\ FmtIdle /\ PlIdle /\ OutIdle /\ ExtraIdle

Next == ReadLine \/ ExecStep \/ StageStep \/ StreamStep

Spec == Init /\ [][Next]_vars

(***************************************************************************)
(* C4, C5: the tokenizer against the spec's state table.                   *)
(***************************************************************************)
\* how many elements of s satisfy being in S
RECURSIVE CountIn(_, _)
CountIn(s, S) ==
    IF s = <<>> THEN 0
    ELSE (IF Head(s) \in S THEN 1 ELSE 0) + CountIn(Tail(s), S)

\* the tokenizer's flags and accumulator after the first k characters
FormatAfter(line, k) == FormatLoop(FormatInit, SubSeq(line, 1, k))

\* Character k of the line is a quote mark that opens or closes a quoted
\* span: it is not backslash-escaped and not inside the other kind of quotes.
OpensOrCloses(line, k) ==
    LET st == FormatAfter(line, k - 1)
    IN  /\ ~st.escape
        /\ \/ line[k] = SQ /\ ~st.inDoubleQuotes
           \/ line[k] = DQ /\ ~st.inSingleQuotes

\* the quote marks of the line that are literal text (escaped, or inside the
\* other kind of quotes)
LiteralQuotes(line) ==
    {k \in 1..Len(line) : line[k] \in {SQ, DQ} /\ ~OpensOrCloses(line, k)}

\* C4: a quote mark that opens or closes a quoted span is consumed: the step
\* that reads it appends nothing to any token, the tokens returned hold
\* exactly as many quote marks as the line has literal ones, and when every
\* quote mark of the line opens or closes a span no token begins or ends
\* with (or contains) a quote mark.
C4_OuterQuotesConsumed ==
    fmtDone =>
        /\ \A k \in 1..Len(fmtLine) :
              OpensOrCloses(fmtLine, k) =>
                 /\ FormatAfter(fmtLine, k).tokens = FormatAfter(fmtLine, k - 1).tokens
                 /\ FormatAfter(fmtLine, k).currentToken
                       = FormatAfter(fmtLine, k - 1).currentToken
        /\ CountIn(Concat(fmtTokens), {SQ, DQ}) = Cardinality(LiteralQuotes(fmtLine))
        /\ LiteralQuotes(fmtLine) = {} =>
              \A i \in 1..Len(fmtTokens) :
                 /\ fmtTokens[i][1] \notin {SQ, DQ}
                 /\ fmtTokens[i][Len(fmtTokens[i])] \notin {SQ, DQ}

\* C4 witness: a single quote between double quotes: the double quotes are
\* consumed and the single quote is the one token
C4_Witness ==
    /\ fmtDone
    /\ fmtLine = <<DQ, SQ, DQ>>
    /\ fmtTokens = << <<SQ>> >>

\* The spec's table (section 4.1), one row per state.  A state is the name
\* of the row, the accumulator and the tokens emitted so far.
TableInit == [state |-> "Neutral", acc |-> <<>>, out |-> <<>>]

TableStep(t, char) ==
    CASE t.state = "Neutral" ->
            IF char = SQ THEN [t EXCEPT !.state = "InSingle"]
            ELSE IF char = DQ THEN [t EXCEPT !.state = "InDouble"]
            ELSE IF char = BS THEN [t EXCEPT !.state = "EscapeNeutral"]
            ELSE IF char = TILDE THEN [t EXCEPT !.acc = @ \o homedir]
            ELSE IF char \in {SP, TAB}
                 THEN IF t.acc # <<>>
                      THEN [t EXCEPT !.out = Append(@, t.acc), !.acc = <<>>]
                      ELSE t
            ELSE [t EXCEPT !.acc = Append(@, char)]
      [] t.state = "InSingle" ->
            IF char = SQ THEN [t EXCEPT !.state = "Neutral"]
            ELSE [t EXCEPT !.acc = Append(@, char)]
      [] t.state = "InDouble" ->
            IF char = DQ THEN [t EXCEPT !.state = "Neutral"]
            ELSE IF char = BS THEN [t EXCEPT !.state = "EscapeInDouble"]
            ELSE [t EXCEPT !.acc = Append(@, char)]
      [] t.state = "EscapeNeutral" ->
            [t EXCEPT !.acc = Append(@, char), !.state = "Neutral"]
      [] t.state = "EscapeInDouble" ->
            IF char \in {DQ, BS, DOLLAR, BQ}
            THEN [t EXCEPT !.acc = Append(@, char), !.state = "InDouble"]
            ELSE [t EXCEPT !.acc = @ \o <<BS, char>>, !.state = "InDouble"]

RECURSIVE TableRun(_, _)
TableRun(t, line) ==
    IF line = <<>> THEN t ELSE TableRun(TableStep(t, Head(line)), Tail(line))

\* the table's tokens: those emitted, and the accumulator at end of input
TableTokens(line) ==
    LET t == TableRun(TableInit, line)
    IN  IF t.acc # <<>> THEN Append(t.out, t.acc) ELSE t.out

\* C5: on every line over the alphabet, handleFormatting returns the tokens
\* of the spec's state table.
C5_AgreesWithTable ==
    fmtDone => fmtTokens = TableTokens(fmtLine)

\* C5 witness: inside double quotes a backslash before an ordinary character
\* stays, with the character
C5_Witness ==
    /\ fmtDone
    /\ fmtLine = <<DQ, BS, "a">>
    /\ fmtTokens = << <<BS, "a">> >>

(***************************************************************************)
(* C6: what processLine takes out of the argument list.                    *)
(***************************************************************************)
\* the position in args of the leftmost redirection operator, 0 if none
FirstOperatorAt(args) ==
    IF \E i \in 1..Len(args) : args[i] \in Range(redirectionOptions)
    THEN CHOOSE i \in 1..Len(args) :
            /\ args[i] \in Range(redirectionOptions)
            /\ \A j \in 1..(i - 1) : args[j] \notin Range(redirectionOptions)
    ELSE 0

\* args without the elements at positions i and i + 1, the others in order
WithoutPair(args, i) ==
    LET removed == IF i < Len(args) THEN 2 ELSE 1
    IN  [j \in 1..(Len(args) - removed) |-> IF j < i THEN args[j] ELSE args[j + 2]]

EndsInAppend(op) == Len(op) >= 2 /\ op[Len(op)] = ">" /\ op[Len(op) - 1] = ">"

\* C6: processLine removes from the arguments exactly the leftmost token
\* that is one of > >> 1> 1>> 2> 2>> and the token right after it, keeps the
\* other arguments in order, records fd 2 for 2> and 2>> and fd 1 for the
\* other operators, and records append mode iff the operator ends in >>.
C6_FirstRedirectionRemoved ==
    (plDone /\ plTokens # <<>>) =>
        LET args == Tail(plTokens)
            i == FirstOperatorAt(args)
        IN  IF i = 0
            THEN plResult.args = args /\ plResult.outputArgs = <<>>
            ELSE /\ plResult.args = WithoutPair(args, i)
                 /\ plResult.outputArgs =
                        IF i < Len(args) THEN <<args[i], args[i + 1]>> ELSE <<args[i]>>
                 /\ redirectionFlag = args[i]
                 /\ redirectionFd(redirectionFlag) = (IF args[i][1] = "2" THEN 2 ELSE 1)
                 /\ (writeModeOf(redirectionFlag) = "a") <=> EndsInAppend(args[i])

\* the line  a > b 2>>  has been processed: > and b are gone, 2>> stays
C6_Witness ==
    /\ plDone
    /\ plTokens = << <<"a">>, <<">">>, <<"b">>, <<"2", ">", ">">> >>
    /\ plResult.args = << <<"2", ">", ">">> >>
    /\ plResult.outputArgs = << <<">">>, <<"b">> >>
    /\ redirectionFlag = <<">">>

(***************************************************************************)
(* C7, C8: what a call of processOutput does to the target file.           *)
(***************************************************************************)
\* the stream of the content of write stream s is not the one its operator
\* redirects
Mismatched(s) ==
    \/ redirectionFd(s.redirection) = 1 /\ s.isError
    \/ redirectionFd(s.redirection) = 2 /\ ~s.isError

\* stream i takes its open or its write step
Advances(i) ==
    /\ Len(streams') = Len(streams)
    /\ streams'[i].phase # streams[i].phase

\* a call has just created a write stream
Created == Len(streams') = Len(streams) + 1

\* what a reader finds in a file; a file that does not exist has no content
ContentOf(f) == IF f = NoFile THEN <<>> ELSE f

\* C7 as stated: no step of a write stream whose content is of the other
\* stream changes the content of the target file.
C7_TargetUntouched ==
    [][\A i \in 1..Len(streams) :
          (Mismatched(streams[i]) /\ Advances(i)) =>
              ContentOf(files'[streams[i].path]) = ContentOf(files[streams[i].path])]_vars

\* C7: when the content of a call is not of the stream its operator
\* redirects, the call sends the content to the terminal (stderr for an
\* error, stdout otherwise) and gives the write stream it creates no data;
\* the steps of that stream change nothing but the target, which the open
\* creates empty when absent and empties when the operator truncates, and
\* which is otherwise left as it is.
C7_TargetGetsNoContent ==
    [][/\ (Created /\ Mismatched(streams'[Len(streams')])) =>
              LET s == streams'[Len(streams')]
                  chunk == [line |-> s.line, text |-> finalOf(s.content)]
              IN  /\ s.data = <<>>
                  /\ files' = files
                  /\ IF s.isError
                     THEN stderr' = Append(stderr, chunk) /\ stdout' = stdout
                     ELSE stdout' = Append(stdout, chunk) /\ stderr' = stderr
       /\ \A i \in 1..Len(streams) :
              (Mismatched(streams[i]) /\ Advances(i)) =>
                  files' = [files EXCEPT ![streams[i].path] =
                               IF streams[i].phase = "open"
                                  /\ (streams[i].flags = "w" \/ @ = NoFile)
                               THEN <<>> ELSE @]]_vars

\* an error was sent with > f while f held x: the message is on stderr, the
\* stream has written its empty data and f is empty
C7_Witness ==
    /\ Len(streams) = 1
    /\ Mismatched(streams[1])
    /\ streams[1].flags = "w"
    /\ streams[1].phase = "end"
    /\ streams[1].path = processedWritePathOf(TargetF)
    /\ files[processedWritePathOf(TargetF)] = <<>>
    /\ streams[1].isError
    /\ stderr = << [line |-> 1, text |-> <<"a", NL>>] >>
    /\ stdout = <<>>

\* stream i has finished and is being closed
Closes(i) ==
    /\ streams[i].phase = "end"
    /\ streams' = RemoveAt(streams, i)

IsPrefix(s, t) == Len(s) <= Len(t) /\ SubSeq(t, 1, Len(s)) = s

\* C8 as stated: the write of an appending stream keeps what the target held
\* and does not make it shorter, and when a truncating stream is closed the
\* target holds exactly what the call wrote.
C8_FileHoldsWhatWasWritten ==
    [][\A i \in 1..Len(streams) :
          /\ (streams[i].flags = "a" /\ streams[i].phase = "write" /\ Advances(i)) =>
                 IsPrefix(files[streams[i].path], files'[streams[i].path])
          /\ (streams[i].flags = "w" /\ Closes(i)) =>
                 files[streams[i].path] = streams[i].data]_vars

(***************************************************************************)
(* C1, C2, C3, C10: prompts and messages of a session.  No history file    *)
(* was loaded, so line n of the session is history[n].                     *)
(***************************************************************************)
TokensOf(n) == handleFormatting(history[n])

\* line n has no pipe token
SingleStage(n) == \A i \in 1..Len(TokensOf(n)) : TokensOf(n)[i] \notin {PIPE, PIPEERR}

HeadIsExitWord(n) == TokensOf(n) # <<>> /\ TokensOf(n)[1] \in escapeCommands

\* the command line n started is still running
ExecPending(n) == \E i \in 1..Len(execs) : execs[i].line = n

\* what line n has put on a terminal stream
ChunksOf(stream, n) ==
    LET OfLine(c) == c.line = n
    IN  SelectSeq(stream, OfLine)

\* C1 as stated: once a line without a pipe token whose head is no exit word
\* has been handled, and the command it started (if any) has terminated,
\* promptUser has been called exactly once for it.
C1_PromptAfterEveryLine ==
    \A n \in 1..Len(prompts) :
        (SingleStage(n) /\ ~HeadIsExitWord(n) /\ ~ExecPending(n)) => prompts[n] = 1

AllClosed(pl) == \A k \in 1..Len(pl.stages) : pl.stages[k].state = "closed"

\* C2 as stated: promptUser is not called for a pipeline before every one of
\* its stages has emitted close.
C2_NoPromptBeforeAllClosed ==
    \A p \in 1..Len(pipes) : prompts[pipes[p].line] >= 1 => AllClosed(pipes[p])

SomeRejected(pl) == \E k \in 1..Len(pl.stages) : pl.stages[k].promise = "rejected"

\* the text the catch handler puts on stderr for stage k of pl: the exit
\* message when the stage ran, the spawn error when it could not start
FailureTextOf(pl, k) ==
    IF pl.stages[k].builtin \/ pl.stages[k].command \in {ExternalCmd}
    THEN <<"Process exited with code ", "1", NL>>
    ELSE <<"spawn ">> \o pl.stages[k].command \o <<" ENOENT", NL>>

\* what the catch handler of the pipeline read at line n has put on stderr
ReportsOf(n) ==
    LET IsReport(c) ==
            /\ c.line = n
            /\ c.text[1] \in {"Process exited with code ", "spawn "}
    IN  SelectSeq(stderr, IsReport)

HeadUnknown(n) ==
    /\ TokensOf(n) # <<>>
    /\ TokensOf(n)[1] \notin escapeCommands \cup builtinCommands
    /\ TokensOf(n)[1] # ExternalCmd

\* line n redirects to a target: its leftmost operator and what follows it
HasTarget(n) ==
    LET args == Tail(TokensOf(n))
    IN  FirstOperatorAt(args) > 0 /\ FirstOperatorAt(args) < Len(args)

OperatorOf(n) == Tail(TokensOf(n))[FirstOperatorAt(Tail(TokensOf(n)))]

\* the line's one message
IsNotFoundLine(text) ==
    /\ Len(text) >= 2
    /\ text[Len(text)] = NL
    /\ text[Len(text) - 1] \in {" not found", ": command not found"}

\* a message of the file system
IsFsErrorLine(text) ==
    text \in { <<"E", "N", "O", "T", "D", "I", "R", NL>>, <<"E", "A", "C", "C", "E", "S", NL>> }

EchoArgOf(line) == SubSeq(line, Len(echo) + 3, Len(line) - 1)

\* C9 as stated: once the line echo "X" has been handled, stdout holds
\* exactly X and one newline, and stderr nothing.
C9_EchoWritesArgument ==
    Len(prompts) = 1 =>
        /\ stdout = << [line |-> 1, text |-> EchoArgOf(fmtLine) \o <<NL>>] >>
        /\ stderr = <<>>


(***************************************************************************)
(* A store written with history -w f, then a new shell started with        *)
(* HISTFILE=f.  The store holds lines a session can have read before the   *)
(* line  history -w f : none of them is blank, since a blank line is never *)
(* followed by a prompt.                                                   *)
(***************************************************************************)
RtEntries == { pwd, <<SP>> \o pwd, pwd \o <<SP>>, Line(<<echo, <<"a">> >>) }

RtWriteLine == Line(<<historyWord, DASH_W, TargetF>>)

RtInit ==
    /\ \E earlier \in SeqUpTo(RtEntries, MaxEntries) :
          history = Append(earlier, RtWriteLine)
    /\ historySizeOnLoad = 0 /\ previousAppendSize = 0 /\ workdir = cwd
    /\ question = TRUE /\ proc = "running"
    /\ prompts = <<>> /\ execs = <<>> /\ pipes = <<>>
    /\ redirectionFlag = undefined
    /\ \E old \in {NoFile, PWD_NL} :
          files = [f \in Files |-> IF f = pathResolve(<<".">>, TargetF) THEN old
                                   ELSE NoFile]
    /\ streams = <<>> /\ stdout = <<>> /\ stderr = <<>>
    /\ FmtIdle /\ PlIdle /\ OutIdle /\ TabIdle /\ EnvDefault /\ ListIdle /\ UtilIdle
    /\ rtPhase = "start" /\ rtLoaded = <<>>

\* main.ts:699-717: the line  history -w f  is executed
RtWrite ==
    /\ rtPhase = "start"
    /\ LET env == handleHistory(CurrentEnv, <<DASH_W, TargetF>>, <<>>,
                                redirectionFlag, 1)
       IN  /\ streams' = env.streams
           /\ stdout' = env.stdout
           /\ stderr' = env.stderr
    /\ rtPhase' = "written"
    /\ UNCHANGED <<files, redirectionFlag, sessionVars, fmtVars, plVars, outCalls,
                   rtLoaded, tabVars, envVars, listVars, utilVars>>

\* main.ts:81-85: a new shell starts with HISTFILE=f once the write is over
RtRestart ==
    /\ rtPhase = "written"
    /\ streams = <<>>
    /\ rtLoaded' = initHistoryFrom(files, pathResolve(<<".">>, TargetF)).history
    /\ rtPhase' = "loaded"
    /\ UNCHANGED <<redirectionFlag, sessionVars, outputVars, fmtVars, plVars, outCalls,
                   tabVars, envVars, listVars, utilVars>>

RtNext == RtWrite \/ StreamStep \/ RtRestart

SpecRound == RtInit /\ [][RtNext]_vars

(***************************************************************************)
(* init's trie on its own: every search path of at most MaxDirs            *)
(* directories, each unreadable or with at most MaxDirEntries entries.     *)
(***************************************************************************)
EntryNames == {<<"x">>, <<"y">>}

DirEntries == [name : EntryNames, executable : BOOLEAN]

\* the listings of a directory: its entries have distinct names
Listings ==
    {l \in SeqUpTo(DirEntries, MaxDirEntries) :
        \A i, j \in 1..Len(l) : i # j => l[i].name # l[j].name}

PathDirListings ==
    {[accessible |-> FALSE, entries |-> <<>>]}
    \cup {[accessible |-> TRUE, entries |-> l] : l \in Listings}

TrieInit ==
    /\ pathListing \in SeqUpTo(PathDirListings, MaxDirs)
    /\ trie = EmptyTrie
    /\ lastCompletion = [line |-> <<>>, timestamp |-> 0]
    /\ now = StartTime /\ tabs = <<>>
    /\ ShellStart /\ FmtIdle /\ PlIdle /\ OutIdle /\ RtIdle /\ EnvDefault /\ ListIdle /\ UtilIdle

\* main.ts:87-101
TrieRun ==
    /\ trie = EmptyTrie
    /\ trie' = initTrie(pathListing)
    /\ UNCHANGED <<redirectionFlag, sessionVars, outputVars, fmtVars, plVars, outCalls,
                   rtVars, pathListing, lastCompletion, now, tabs, envVars,
                   listVars, utilVars>>

TrieNext == TrieRun

SpecTrie == TrieInit /\ [][TrieNext]_vars

(***************************************************************************)
(* The completer on its own: at most MaxTabs completion requests, each on  *)
(* one of TabLines and some time after the one before.                     *)
(***************************************************************************)
TabLines ==
    { <<>>, <<SP>>, <<"z">>, <<"e">>, <<"e", "s">>, <<"e", "s", "c">>,
      <<"e", "c">>, echo, <<SP, "e">> }

\* the milliseconds between two requests
TabDelays == {400, 1000}

TabInit ==
    /\ pathListing = DefaultListing
    /\ trie = initTrie(DefaultListing)
    /\ lastCompletion = [line |-> <<>>, timestamp |-> 0]
    /\ now = StartTime /\ tabs = <<>>
    /\ ShellStart /\ FmtIdle /\ PlIdle /\ OutIdle /\ RtIdle /\ EnvDefault /\ ListIdle /\ UtilIdle

\* main.ts:14-59: readline calls the completer with the line
Tab ==
    /\ Len(tabs) < MaxTabs
    /\ \E line \in TabLines, delay \in TabDelays :
          LET r == completer(trie, lastCompletion, line, now + delay)
          IN  /\ now' = now + delay
              /\ lastCompletion' = r.last
              /\ tabs' = Append(tabs, [line |-> line, time |-> now + delay,
                                       input |-> r.input,
                                       completions |-> r.completions,
                                       bell |-> r.bell, printed |-> r.printed])
    /\ UNCHANGED <<redirectionFlag, sessionVars, outputVars, fmtVars, plVars, outCalls,
                   rtVars, pathListing, trie, envVars, listVars, utilVars>>

TabNext == Tab

SpecTab == TabInit /\ [][TabNext]_vars

(***************************************************************************)
(* Sessions of cd lines.                                                   *)
(***************************************************************************)
\* the directories asked for: a directory, a link to it, a regular file, a
\* directory that cannot be searched, a dangling link, a name that does not
\* exist, the parent, an absolute path, and a path with a ".." segment
CdDirs ==
    { <<"d">>, <<"l">>, <<"r">>, <<"k">>, <<"g">>, <<"n">>, <<".", ".">>,
      cwd \o <<"/", "l">>, <<"d", "/", ".", ".", "/", "n">> }

\* an absolute redirection target
CdTarget == processedWritePathOf(TargetF)

CdLines ==
    {Line(<<cd, dir>>) : dir \in CdDirs}
    \cup { Line(<<cd>>),
           Line(<<cd, <<"n">>, <<"2", ">">>, CdTarget>>),
           Line(<<cd, <<"n">>, <<">">>, CdTarget>>),
           Line(<<cd, <<"d">>, <<"2", ">">>, CdTarget>>) }

CdReadLine ==
    \E line \in CdLines : Len(prompts) < MaxCdLines /\ processInput(line)

CdNext == CdReadLine \/ StreamStep

SpecCd == Init /\ [][CdNext]_vars

(***************************************************************************)
(* Sessions of type lines, for every search path of at most MaxDirs        *)
(* directories and every choice of the executable files under them.        *)
(***************************************************************************)
TypeDirs == {<<"/", "b">>, <<"/", "c">>}

\* process.env.PATH: unset, empty, or some directories
TypePaths == {undefined} \cup {Join(dirs, <<":">>) : dirs \in SeqUpTo(TypeDirs, MaxDirs)}

\* the files that may be executable
TypeFiles ==
    {pathJoin(dir, name) : dir \in TypeDirs, name \in {<<"x">>, <<"y">>}}
    \cup {pathJoin(<<"/", "b">>, echo)}

\* type alone, with a name that may be on the path, with one that never is,
\* with a built-in, with an exit word, with a quoted name that starts with a
\* space, and with a redirection
TypeLines ==
    { Line(<<type>>), Line(<<type, <<"x">> >>), Line(<<type, <<"y">> >>),
      Line(<<type, <<"n">> >>), Line(<<type, echo>>), Line(<<type, <<"q">> >>),
      Line(<<type, <<DQ, SP, "x", DQ>> >>),
      Line(<<type, <<"x">>, <<">">>, TargetF>>),
      Line(<<type, <<"n">>, <<"2", ">">>, TargetF>>) }

TypeInit ==
    /\ ShellStart /\ FmtIdle /\ PlIdle /\ OutIdle /\ RtIdle /\ TabIdle /\ ListIdle /\ UtilIdle
    /\ envPATH \in TypePaths
    /\ executables \in SUBSET TypeFiles

TypeReadLine ==
    \E line \in TypeLines : Len(prompts) < MaxTypeLines /\ processInput(line)

TypeNext == TypeReadLine \/ StreamStep

SpecType == TypeInit /\ [][TypeNext]_vars

(***************************************************************************)
(* Sessions of pipelines that have built-ins among their stages.           *)
(***************************************************************************)
StageLines ==
    { Line(<<type, ExternalCmd, PIPE, ExternalCmd>>),
      Line(<<type, UnknownCmd, PIPE, ExternalCmd>>),
      Line(<<historyWord, DASH_W, TargetF, PIPE, ExternalCmd>>),
      Line(<<ExternalCmd, PIPE, cd, <<"d">> >>),
      Line(<<ExternalCmd, PIPE, pwd>>),
      Line(<<echo, <<"a">>, PIPE, ExternalCmd>>),
      Line(<<ExternalCmd, PIPE, echo, <<"a">>, <<">">>, TargetF>>),
      Line(<<ExternalCmd, PIPEERR, ExternalCmd, PIPE, echo, <<"a">> >>),
      Line(<<type, UnknownCmd, PIPEERR, echo, <<"a">> >>),
      Line(<<echo, <<"a">>, <<">">>, TargetF>>) }

StageReadLine ==
    \E line \in StageLines : Len(prompts) < MaxStageLines /\ processInput(line)

StageNext == StageReadLine \/ StageStep \/ StreamStep

SpecStage == Init /\ [][StageNext]_vars

(***************************************************************************)
(* Sessions of lines with two redirection operators, or with an operator   *)
(* that is quoted or escaped.                                              *)
(***************************************************************************)
OperatorLines ==
    { Line(<<echo, <<"a">>, <<">">>, TargetF, <<">", ">">>, TargetF>>),
      Line(<<UnknownCmd, <<">">>, TargetF, <<"2", ">">>, TargetF>>),
      Line(<<ExternalCmd, <<">">>, TargetF, <<">">>, TargetF>>),
      Line(<<echo, <<"a">>, <<DQ, ">", DQ>>, TargetF>>),
      Line(<<echo, <<"a">>, <<SQ, ">", ">", SQ>>, TargetF>>),
      Line(<<echo, <<"a">>, <<BS, ">">>, TargetF>>),
      Line(<<echo, <<DQ, ">", DQ>>, TargetF>>),
      Line(<<echo, <<"a">>, <<">">>, TargetF>>),
      Line(<<echo, <<"a">>, <<DQ, "b", DQ>> >>) }

OperatorReadLine ==
    \E line \in OperatorLines : Len(prompts) < MaxOperatorLines /\ processInput(line)

OperatorNext == OperatorReadLine \/ ExecStep \/ StreamStep

SpecOperator == Init /\ [][OperatorNext]_vars

(***************************************************************************)
(* Sessions of external commands run with a redirection.                   *)
(***************************************************************************)
ExecLines ==
    { Line(<<ExternalCmd, <<">">>, TargetF>>),
      Line(<<ExternalCmd, <<"2", ">">>, TargetF>>),
      Line(<<ExternalCmd, <<">", ">">>, TargetF>>) }

ExecReadLine ==
    \E line \in ExecLines : Len(prompts) < MaxExecLines /\ processInput(line)

ExecNext == ExecReadLine \/ ExecStep \/ StreamStep

SpecExec == Init /\ [][ExecNext]_vars

(***************************************************************************)
(* The loop that prints the match list, main.ts:44-52, one iteration at a  *)
(* time, for every list of matches and every width of the terminal.        *)
(***************************************************************************)
ListWords == {<<"a">>, <<"a", "b">>, <<"a", "b", "c">>, <<"b">>}
\* process.stdout.columns; 0 stands for undefined (stdout is not a terminal)
ListColumns == {0, 2, 4, 6, 10}

ListInit ==
    /\ ShellStart /\ FmtIdle /\ PlIdle /\ OutIdle /\ RtIdle /\ TabIdle /\ EnvDefault
    /\ UtilIdle
    /\ \E S \in SUBSET ListWords, c \in ListColumns :
          /\ Cardinality(S) > 1
          /\ list = [phase |-> "loop", matches |-> sort(S), columns |-> c, i |-> 0,
                     rows |-> <<>>]

\* main.ts:49-52: one iteration of the for loop
ListRow ==
    /\ list.phase = "loop"
    /\ list.i < Len(list.matches)
    /\ Len(list.rows) < MaxRows
    /\ list' = [list EXCEPT
                  !.rows = Append(@, listRow(list.matches, list.i,
                                             perRowOf(list.matches, list.columns))),
                  !.i = @ + perRowOf(list.matches, list.columns)]
    /\ UNCHANGED <<sessionVars, outputVars, redirectionFlag, fmtVars, plVars,
                   outCalls, rtVars, tabVars, envVars, utilVars>>

\* main.ts:49: the loop condition fails
ListEnd ==
    /\ list.phase = "loop"
    /\ list.i >= Len(list.matches)
    /\ list' = [list EXCEPT !.phase = "done"]
    /\ UNCHANGED <<sessionVars, outputVars, redirectionFlag, fmtVars, plVars,
                   outCalls, rtVars, tabVars, envVars, utilVars>>

ListNext == ListRow \/ ListEnd

SpecList == ListInit /\ [][ListNext]_vars

(***************************************************************************)
(* findLCP and the Trie on their own.                                      *)
(***************************************************************************)
UtilWords ==
    { <<>>, <<"a">>, <<"b">>, <<"a", "a">>, <<"a", "b">>, <<"a", "b", "a">>,
      <<"a", "b", "b">> }

UtilStart ==
    /\ ShellStart /\ FmtIdle /\ PlIdle /\ OutIdle /\ RtIdle /\ TabIdle /\ EnvDefault
    /\ ListIdle

UtilUnchanged ==
    UNCHANGED <<sessionVars, outputVars, redirectionFlag, fmtVars, plVars, outCalls,
                rtVars, tabVars, envVars, listVars>>

LcpInit ==
    /\ UtilStart
    /\ \E strings \in SeqUpTo(UtilWords, MaxStrings) :
          utilCall = [function |-> "findLCP", args |-> strings, result |-> <<>>,
                      returned |-> FALSE]

LcpRun ==
    /\ utilCall.function = "findLCP"
    /\ ~utilCall.returned
    /\ utilCall' = [utilCall EXCEPT !.result = findLCP(utilCall.args),
                                    !.returned = TRUE]
    /\ UtilUnchanged

LcpNext == LcpRun

SpecLCP == LcpInit /\ [][LcpNext]_vars

\* a trie of its own gets the words, in the order given, and is asked for
\* the words of a prefix
AutoInit ==
    /\ UtilStart
    /\ \E words \in SeqUpTo(UtilWords, MaxWords), prefix \in UtilWords :
          utilCall = [function |-> "autocomplete",
                      args |-> [words |-> words, prefix |-> prefix],
                      result |-> <<>>, returned |-> FALSE]

AutoRun ==
    /\ utilCall.function = "autocomplete"
    /\ ~utilCall.returned
    /\ utilCall' = [utilCall EXCEPT
                      !.result = autocomplete(insertAll(EmptyTrie, utilCall.args.words),
                                              utilCall.args.prefix),
                      !.returned = TRUE]
    /\ UtilUnchanged

AutoNext == AutoRun

SpecAuto == AutoInit /\ [][AutoNext]_vars

(***************************************************************************)
(* C11.  The history store.                                                *)
(***************************************************************************)
\* the lines of a file's data that are not blank, each without the
\* whitespace around it
RECURSIVE NonBlankTrimmed(_)
NonBlankTrimmed(lines) ==
    IF lines = <<>> THEN <<>>
    ELSE (IF trim(Head(lines)) = <<>> THEN <<>> ELSE <<trim(Head(lines))>>)
         \o NonBlankTrimmed(Tail(lines))

\* the entries of store h from index i on
EntriesFrom(h, i) == [k \in 1..(historySize(h) - i + 1) |-> h[k + i - 1]]

\* a line has been read in this step
LineRead == Len(prompts') = Len(prompts) + 1

\* what a step adds to the store is the nonblank lines of one file, in the
\* file's order, or nothing
LoadedFrom(i) ==
    \/ historySize(history') = i - 1
    \/ \E f \in Files :
          /\ readable(files, f)
          /\ EntriesFrom(history', i) = NonBlankTrimmed(splitLines(files[f]))

C11_Step ==
    LET n == historySize(history)
    IN  /\ \A k \in DOMAIN history : k \in DOMAIN history' /\ history'[k] = history[k]
        /\ DOMAIN history' = 1..historySize(history')
        /\ IF LineRead
           THEN /\ n + 1 \in DOMAIN history'
                /\ history'[n + 1] \in HistLines
                /\ LoadedFrom(n + 2)
           ELSE LoadedFrom(n + 1)

\* C11: at every point of a session the indices of the history store are
\* exactly 1..n; every line read (empty, failing and exit lines included)
\* is stored at index n+1, the nonblank lines a history -r loads follow it
\* at the next indices, and no entry is ever removed or rewritten.
C11_StoreGrowsAtTheEnd ==
    [](DOMAIN history = 1..historySize(history)) /\ [][C11_Step]_vars

\* two lines have been read and a history -r has loaded entries besides
C11_Witness ==
    /\ Len(prompts) >= 2
    /\ historySize(history) > historySizeOnLoad + Len(prompts)


(***************************************************************************)
(* C12.  The append cursor.                                                *)
(***************************************************************************)
\* C12: the append cursor never exceeds the number of history entries,
\* whatever lines were read, whatever history -r loaded and whatever
\* history -a flushed, as a single stage or as a stage of a pipeline.
C12_CursorWithinStore == previousAppendSize <= historySize(history)

\* a history -a has run as a stage of a pipeline and moved the cursor, and
\* a line has been read since
C12_Witness ==
    /\ previousAppendSize > 0
    /\ previousAppendSize < historySize(history)
    /\ pipes # <<>>
    /\ pipes[1].stages[1].command = historyWord
    /\ pipes[1].stages[1].args[1] = DASH_A
    /\ pipes[1].stages[1].state = "closed"


(***************************************************************************)
(* C13.  history -a.                                                       *)
(***************************************************************************)
\* the entries of store h with index in (lo, hi], one per line
RECURSIVE EntryLines(_, _, _)
EntryLines(h, lo, hi) ==
    IF lo >= hi THEN <<>>
    ELSE h[lo + 1] \o <<NL>> \o EntryLines(h, lo + 1, hi)

\* the target of the history -a and history -w lines
HistTarget == pathResolve(<<".">>, TargetF)

\* the step has created a stream that appends data to file
AppendsTo(file, data) ==
    /\ Len(streams') = Len(streams) + 1
    /\ streams'[Len(streams')].path = file
    /\ streams'[Len(streams')].flags = "a"
    /\ streams'[Len(streams')].data = data

\* C13: each history -a file appends to file exactly the entries with index
\* in (append_cursor, len(history)], in index order, and then sets
\* append_cursor to len(history): no entry is written twice by successive
\* history -a commands and none is skipped.
C13_AppendWritesEntriesPastCursor ==
    [][previousAppendSize' # previousAppendSize
         => /\ AppendsTo(HistTarget,
                         EntryLines(history', previousAppendSize, historySize(history')))
            /\ previousAppendSize' = historySize(history')]_vars


(***************************************************************************)
(* C14.  history -w.                                                       *)
(***************************************************************************)
\* the step has read the line  history -w f
WriteLineRead ==
    /\ LineRead
    /\ historySize(history) + 1 \in DOMAIN history'
    /\ history'[historySize(history) + 1] = Line(<<historyWord, DASH_W, TargetF>>)

\* the step has created a stream that truncates file and writes data
Overwrites(file, data) ==
    /\ Len(streams') = Len(streams) + 1
    /\ streams'[Len(streams')].path = file
    /\ streams'[Len(streams')].flags = "w"
    /\ streams'[Len(streams')].data = data

\* C14: after any earlier lines, whatever redirection operators they used,
\* history -w file leaves file with exactly all entries of the store in
\* index order, one per line, and writes none of them to the terminal.
C14_WriteStoresAllEntries ==
    [][WriteLineRead
         => /\ Overwrites(HistTarget, EntryLines(history', 0, historySize(history')))
            /\ stdout' = stdout
            /\ stderr' = stderr]_vars


(***************************************************************************)
(* C15.  Exit words.                                                       *)
(***************************************************************************)
\* the step has read a single-stage line whose head is an exit word
ExitLineRead ==
    /\ LineRead
    /\ historySize(history) + 1 \in DOMAIN history'
    /\ LET tokens == handleFormatting(history'[historySize(history) + 1])
       IN  /\ tokens # <<>>
           /\ ~isPipeline(tokens)
           /\ isEscapeCommand(tokens[1])

\* an exit word has been executed
Exiting == proc # "running" \/ \E i \in 1..Len(streams) : streams[i].onFinish = "exit"

C15_Step ==
    /\ ExitLineRead
         => /\ AppendsTo(historyFilePath,
                         EntryLines(history', historySizeOnLoad, historySize(history')))
            /\ streams'[Len(streams')].onFinish = "exit"
            /\ question' = FALSE
    /\ files'[historyFilePath] # files[historyFilePath]
         => \/ files[historyFilePath] = NoFile /\ files'[historyFilePath] = <<>>
            \/ \E i \in 1..Len(streams) :
                  /\ streams[i].onFinish = "exit"
                  /\ streams[i].phase = "write"
                  /\ files'[historyFilePath] = files[historyFilePath] \o streams[i].data
    /\ Exiting => prompts' = prompts /\ question' = FALSE
    /\ proc' # proc
         => \/ /\ proc' = "exit0"
               /\ \E i \in 1..Len(streams) :
                     streams[i].onFinish = "exit" /\ streams[i].phase = "end"
            \/ /\ proc' = "exit1"
               /\ cannotOpen(files, historyFilePath)
               /\ files' = files

\* C15: a single-stage line whose head is an exit word appends to the
\* history file exactly the entries with index above the baseline, in index
\* order and one per line, keeps what the file held, issues no further
\* prompt, and ends the process with code 0 when the write has finished and
\* with code 1 when it fails.
C15_ExitFlushesSessionEntries == [][C15_Step]_vars

\* the shell has exited with code 0 after a second line, having started
\* with a history file that held entries
C15_Witness ==
    /\ proc = "exit0"
    /\ historySizeOnLoad > 0
    /\ Len(prompts) >= 2
    /\ Len(files[historyFilePath]) > Len(EntryLines(history, 0, historySizeOnLoad))

\* the shell has exited with code 1
C15_WitnessFailure == proc = "exit1"


(***************************************************************************)
(* C16.  history -w, then a restart with the written file as history file. *)
(***************************************************************************)
\* the entries of a sequence that are not blank
NonBlank(entries) == SelectSeq(entries, LAMBDA e : trim(e) # <<>>)

\* C16: after history -w F and a restart with HISTFILE=F, the store right
\* after the startup load equals the written entries in the same order,
\* blank entries dropped and the others unchanged.
C16_LoadGivesBackWhatWasWritten ==
    rtPhase = "loaded" => historyValues(rtLoaded) = NonBlank(historyValues(history))


(***************************************************************************)
(* C17.  What a completion request returns.                                *)
(***************************************************************************)
\* the trie words that have p as a prefix
MatchesOf(p) == {w \in trie.ends : startsWith(w, p)}

\* the longest sequence that is a prefix of every word of a nonempty set
CommonPrefix(words) ==
    LET w0 == CHOOSE w \in words : TRUE
        common == {k \in 0..Len(w0) : \A w \in words : startsWith(w, SubSeq(w0, 1, k))}
    IN  SubSeq(w0, 1, CHOOSE k \in common : \A j \in common : j <= k)

\* request r was made on a line that is not empty; its input is the line
\* without the whitespace around it
Asked(r) == r.line # <<>>

C17_Request(r) ==
    LET M == MatchesOf(r.input)
    IN  /\ M = {} => r.bell /\ r.completions = <<>>
        /\ Cardinality(M) = 1
             => r.completions = << (CHOOSE w \in M : TRUE) \o <<SP>> >>
        /\ Cardinality(M) > 1 /\ Len(CommonPrefix(M)) > Len(r.input)
             => r.completions = <<CommonPrefix(M)>> /\ ~r.bell

\* C17: for a completion request with input p and M the trie words with
\* prefix p: M empty rings the bell and returns no completion; M of one word
\* returns that word followed by one space; M of several words whose longest
\* common prefix is longer than p returns that prefix alone, without a
\* trailing space and without the bell.
C17_CompletionByMatches ==
    \A i \in 1..Len(tabs) : Asked(tabs[i]) => C17_Request(tabs[i])

\* three requests: one without a match, one with a single match, one with
\* several matches that share more than the input
C17_Witness ==
    /\ \E i \in 1..Len(tabs) : Asked(tabs[i]) /\ MatchesOf(tabs[i].input) = {}
    /\ \E i \in 1..Len(tabs) : Cardinality(MatchesOf(tabs[i].input)) = 1
    /\ \E i \in 1..Len(tabs) :
          /\ Cardinality(MatchesOf(tabs[i].input)) > 1
          /\ Len(CommonPrefix(MatchesOf(tabs[i].input))) > Len(tabs[i].input)

(***************************************************************************)
(* C18.  The match list and the double tab.                                *)
(***************************************************************************)
\* request i has several matches
Several(i) == Asked(tabs[i]) /\ Cardinality(MatchesOf(tabs[i].input)) > 1

\* request i has several matches that share nothing beyond the input
Ambiguous(i) ==
    Several(i) /\ Len(CommonPrefix(MatchesOf(tabs[i].input))) = Len(tabs[i].input)

\* a tab was pressed on the line of request i less than a second before it
TabbedBefore(i) ==
    \E j \in 1..(i - 1) :
        tabs[j].line = tabs[i].line /\ tabs[i].time - tabs[j].time < 1000

\* C18 as stated: in the ambiguous case the first tab at a line rings the
\* bell and prints nothing, and the match list is printed only when a tab
\* was pressed on that same line less than a second earlier.
C18_ListOnlyOnSecondTabAtLine ==
    \A i \in 1..Len(tabs) :
        /\ tabs[i].printed # <<>> => TabbedBefore(i)
        /\ Ambiguous(i) /\ ~TabbedBefore(i) => tabs[i].bell /\ tabs[i].printed = <<>>

\* the line the completer remembers after request j: the prefix it
\* completed to, or the line of the request
RememberedLine(j) ==
    IF Ambiguous(j) THEN tabs[j].line ELSE tabs[j].completions[1]

\* the last request before i that had several matches left the line of
\* request i in the memory, less than a second before request i
SecondTab(i) ==
    \E j \in 1..(i - 1) :
        /\ Several(j)
        /\ \A k \in (j + 1)..(i - 1) : ~Several(k)
        /\ RememberedLine(j) = tabs[i].line
        /\ tabs[i].time - tabs[j].time < 1000

\* C18, corrected: in the ambiguous case the match list is printed exactly
\* when the last request with several matches was less than a second
\* earlier and was made on this line or completed its input to this line;
\* otherwise the bell rings and nothing is printed.  No other request
\* prints.
C18_ListOnSecondTabOrAfterCompletion ==
    \A i \in 1..Len(tabs) :
        /\ tabs[i].printed # <<>> <=> Ambiguous(i) /\ SecondTab(i)
        /\ Ambiguous(i) /\ ~SecondTab(i) => tabs[i].bell
        /\ tabs[i].printed # <<>>
             => ~tabs[i].bell /\ tabs[i].printed = matchList(sort(MatchesOf(tabs[i].input)))

\* a match list was printed on the first tab at a line, right after the
\* completion that produced the line
C18_Witness ==
    \E i \in 2..Len(tabs) :
        /\ tabs[i].printed # <<>>
        /\ ~TabbedBefore(i)
        /\ tabs[i - 1].completions = <<tabs[i].line>>


(***************************************************************************)
(* C19.  The trie after init.                                              *)
(***************************************************************************)
\* init has filled the trie
TrieFilled == trie # EmptyTrie

\* C19: after init the trie contains every exit word, every built-in name
\* and the name of every executable file of every accessible directory of
\* the search path: an inaccessible directory or an entry that is not
\* executable keeps only itself out.
C19_TrieHoldsEveryExecutable ==
    TrieFilled
      => /\ escapeCommands \cup builtinCommands \subseteq trie.ends
         /\ \A d \in 1..Len(pathListing) :
               pathListing[d].accessible
                 => \A e \in 1..Len(pathListing[d].entries) :
                       pathListing[d].entries[e].executable
                         => pathListing[d].entries[e].name \in trie.ends


(***************************************************************************)
(* C20.  cd dir.                                                           *)
(***************************************************************************)
\* the tokens of the line read in this step
TokensRead == handleFormatting(history'[historySize(history) + 1])

\* the step has read a line  cd dir ...
CdLineRead ==
    /\ LineRead
    /\ historySize(history) + 1 \in DOMAIN history'
    /\ Len(TokensRead) >= 2
    /\ TokensRead[1] = cd

\* the absolute path of the directory asked for
CdPath == resolveIn(workdir, TokensRead[2])

\* the target exists and is, behind its links, a directory that can be entered
CanEnter(p) == accessSync(p) /\ realpathSync(p) \in FsDirs

\* the message of a failed cd, as it is written
CdMessage(p) == <<"cd: ">> \o p \o <<": No such file or directory", NL>>

\* the line read redirects stderr
RedirectsStderr ==
    \E i \in 1..Len(TokensRead) : TokensRead[i] \in {<<"2", ">">>, <<"2", ">", ">">>}

\* the step has written text to stderr, and nothing else to the terminal
OnlyOnStderr(text) ==
    /\ stderr' = Append(stderr, [line |-> Len(prompts'), text |-> text])
    /\ stdout' = stdout

BuiltinLineRead ==
    /\ LineRead
    /\ historySize(history) + 1 \in DOMAIN history'
    /\ TokensRead # <<>>
    /\ ~isPipeline(TokensRead)
    /\ isShellBuiltInCommand(TokensRead[1])

\* the line read is a cd that cannot succeed: no argument, or a target that
\* cannot be accessed or entered
CdFails ==
    /\ TokensRead[1] = cd
    /\ (Len(TokensRead) >= 2 => ~CanEnter(CdPath))

\* C21: whatever a built-in line is, the process is still running after it,
\* the prompt has been issued again, and a cd that cannot succeed has put its
\* report on stderr.
C21_BuiltinErrorReportedAndPromptReissued ==
    [][BuiltinLineRead
         => /\ proc' = "running"
            /\ question'
            /\ prompts'[Len(prompts')] = 1
            /\ (CdFails => Len(stderr') = Len(stderr) + 1)]_vars

(***************************************************************************)
(* C22.  type name.                                                        *)
(***************************************************************************)
\* the step has read a single-stage line  type ...
TypeLineRead == BuiltinLineRead /\ TokensRead[1] = type

\* the name asked about: the first argument that is not part of the
\* redirection, or the empty string
TypeName ==
    LET args == extractRedirection(TokensRead, redirectionFlag).args
    IN  IF args = <<>> THEN <<>> ELSE args[1]

\* the directories of PATH, in order
PATHDirs == IF envPATH = undefined THEN <<>> ELSE split(envPATH, ":")

\* the directories of PATH that hold the name as an executable file
HoldingDirs(name) ==
    {i \in 1..Len(PATHDirs) : pathJoin(PATHDirs[i], name) \in executables}

\* the message the stated order chooses for a name
TypeMessage(name) ==
    IF name = <<>> THEN <<"type: please include an argument">>
    ELSE IF name \in escapeCommands \cup builtinCommands
    THEN name \o <<" is a shell builtin">>
    ELSE IF envPATH = undefined \/ envPATH = <<>>
    THEN name \o <<": please set PATH">>
    ELSE IF HoldingDirs(name) # {}
    THEN LET first == CHOOSE i \in HoldingDirs(name) : \A j \in HoldingDirs(name) : i <= j
         IN  name \o <<" is ">> \o pathJoin(PATHDirs[first], name)
    ELSE name \o <<": not found">>

\* the step has emitted the one line text, on the terminal or into the
\* stream of a redirection, and nothing else (a redirection that does not
\* take the line still opens its target, to write nothing)
EmitsOnly(text) ==
    \/ /\ \/ streams' = streams
          \/ /\ Len(streams') = Len(streams) + 1
             /\ streams'[Len(streams')].data = <<>>
       /\ \/ stdout' = Append(stdout, [line |-> Len(prompts'), text |-> text])
             /\ stderr' = stderr
          \/ stderr' = Append(stderr, [line |-> Len(prompts'), text |-> text])
             /\ stdout' = stdout
    \/ /\ stdout' = stdout /\ stderr' = stderr
       /\ Len(streams') = Len(streams) + 1
       /\ streams'[Len(streams')].data = text

\* C22: a type line emits exactly one message, the one the order chooses for
\* the name it asks about.
C22_TypeEmitsTheChosenMessage ==
    [][TypeLineRead => EmitsOnly(TypeMessage(TypeName) \o <<NL>>)]_vars

(***************************************************************************)
(* C23.  Built-ins as pipeline stages.                                     *)
(***************************************************************************)
\* the step has run the body of stage k of pipeline p, a built-in
StageRan(p, k) ==
    /\ isShellBuiltInCommand(pipes[p].stages[k].command)
    /\ pipes[p].stages[k].state = "running"
    /\ pipes'[p].stages[k].state = "closed"

\* the text of some chunks written to a terminal stream
TextOf(chunks) == Concat([i \in 1..Len(chunks) |-> chunks[i].text])

\* what the handler of a single-stage line does, from the state of this
\* step and a terminal that shows nothing yet, with the tokens of a stage
AsSingleLine(st, line) ==
    LET r == extractRedirection(<<st.command>> \o st.args, redirectionFlag)
    IN  runBuiltin([CurrentEnv EXCEPT !.stdout = <<>>, !.stderr = <<>>,
                                      !.streams = <<>>],
                   r.root, r.args, r.outputArgs, r.redirectionFlag, line)

\* C23: a built-in stage writes to its streams what the single-stage line
\* of the same tokens writes, and leaves the same store, cursor, working
\* directory and files.
C23_StageDoesWhatTheSingleLineDoes ==
    [][\A p \in 1..Len(pipes) : \A k \in 1..Len(pipes[p].stages) :
          StageRan(p, k)
            => LET single == AsSingleLine(pipes[p].stages[k], pipes[p].line)
               IN  /\ pipes'[p].stages[k].stdout = TextOf(single.stdout)
                   /\ pipes'[p].stages[k].stderr = TextOf(single.stderr)
                   /\ history' = single.history
                   /\ previousAppendSize' = single.previousAppendSize
                   /\ workdir' = single.workdir
                   /\ single.streams = <<>>]_vars

(***************************************************************************)
(* C24.  A redirection on the trailing stage of a pipeline.                *)
(***************************************************************************)
\* the trailing stage of pipeline p carries a redirection operator and a
\* target after it
TrailingRedirection(p) ==
    LET st == pipes[p].stages[Len(pipes[p].stages)]
    IN  shouldWriteOf(extractRedirection(<<st.command>> \o st.args,
                                         redirectionFlag).outputArgs)

\* the file the trailing stage of pipeline p is redirected to
TrailingTarget(p) ==
    LET st == pipes[p].stages[Len(pipes[p].stages)]
    IN  processedWritePathOf(
            writePathOf(extractRedirection(<<st.command>> \o st.args,
                                           redirectionFlag).outputArgs))

\* C24: when the trailing stage of a pipeline carries a redirection, the
\* step that runs it puts nothing of it on the terminal's stdout and hands
\* the output to a write stream on the target.
C24_TrailingStageOutputGoesToTheTarget ==
    [][\A p \in 1..Len(pipes) :
          StageRan(p, Len(pipes[p].stages)) /\ TrailingRedirection(p)
            => /\ stdout' = stdout
               /\ Len(streams') = Len(streams) + 1
               /\ streams'[Len(streams')].path = TrailingTarget(p)]_vars

(***************************************************************************)
(* C25.  The pipes of a pipeline.                                          *)
(***************************************************************************)
\* the pipe operators of the line pipeline p was read from, in order
OperatorsOf(p) ==
    SelectSeq(handleFormatting(history[historySizeOnLoad + pipes[p].line]),
              LAMBDA t : t \in {PIPE, PIPEERR})

\* the pipes of pipeline p that start at stage k
PipesFrom(p, k) ==
    {c \in 1..Len(pipes[p].connections) : pipes[p].connections[c].from = k}

\* the pipes of pipeline p that end in the stdin of a stage
PipesBetweenStages(p) ==
    {c \in 1..Len(pipes[p].connections) :
        pipes[p].connections[c].to.stream = "stdin"}

\* the stream of stage k that the operator after it pipes on
PipedStream(p, k) == IF OperatorsOf(p)[k] = PIPEERR THEN "stderr" ELSE "stdout"

\* the pipes of pipeline p are N-1 pipes between stages, one from each
\* stage but the last into the stdin of the next, and the two pipes from
\* the last stage to the terminal
WiredInSequence(p) ==
    LET N == Len(pipes[p].stages)
        C == pipes[p].connections
    IN  /\ Cardinality(PipesBetweenStages(p)) = N - 1
        /\ \A k \in 1..(N - 1) :
              /\ Cardinality(PipesFrom(p, k)) = 1
              /\ \A c \in PipesFrom(p, k) :
                    /\ C[c].stream = PipedStream(p, k)
                    /\ C[c].to = StdinOf(k + 1)
        /\ {C[c] : c \in PipesFrom(p, N)}
              = {[from |-> N, stream |-> str, to |-> ProcessStream(str)] :
                    str \in {"stdout", "stderr"}}

\* what the step has added to the terminal's stdout
AddedToStdout == TextOf(SubSeq(stdout', Len(stdout) + 1, Len(stdout')))

\* what the built-in stage k of pipeline p has written reaches the stdin of
\* the next stage, and of no other, when k is not the last stage, and the
\* terminal when it is
Delivered(p, k) ==
    LET N == Len(pipes[p].stages)
        text == IF PipedStream(p, k) = "stderr" THEN pipes'[p].stages[k].stderr
                ELSE pipes'[p].stages[k].stdout
    IN  IF k < N
        THEN /\ AddedToStdout = <<>>
             /\ \A j \in 1..N :
                   pipes'[p].stages[j].stdin
                     = pipes[p].stages[j].stdin \o (IF j = k + 1 THEN text ELSE <<>>)
        ELSE /\ AddedToStdout = pipes'[p].stages[k].stdout
             /\ \A j \in 1..N : pipes'[p].stages[j].stdin = pipes[p].stages[j].stdin

\* C25: every pipeline is wired in sequence, the stream of each stage chosen
\* by the operator that follows it, and what a stage writes goes where its
\* pipes lead.
C25_PipelineWiredInSequence ==
    /\ [](\A p \in 1..Len(pipes) : WiredInSequence(p))
    /\ [][\A p \in 1..Len(pipes) : \A k \in 1..Len(pipes[p].stages) :
             StageRan(p, k) => Delivered(p, k)]_vars

\* a pipeline of three stages whose first operator is |& has run its last
\* stage, and another has fed a stage's stderr to the stage after it
C25_Witness ==
    /\ \E p \in 1..Len(pipes) :
          /\ Len(pipes[p].stages) = 3
          /\ OperatorsOf(p) = <<PIPEERR, PIPE>>
          /\ pipes[p].stages[3].state = "closed"
    /\ \E p \in 1..Len(pipes) :
          /\ Len(pipes[p].stages) = 2
          /\ pipes[p].stages[1].stderr # <<>>
          /\ pipes[p].stages[2].stdin = pipes[p].stages[1].stderr

(***************************************************************************)
(* C26.  Write streams and the prompt.                                     *)
(***************************************************************************)
\* the step has called promptUser and a line can be read again
PromptIssued ==
    /\ question'
    /\ \E n \in 1..Len(prompts') :
          prompts'[n] > (IF n \in 1..Len(prompts) THEN prompts[n] ELSE 0)

\* C26: when a prompt is issued no write stream is left: every stream that
\* was created has been opened, written and closed.
C26_NoStreamLeftAtPrompt ==
    [][PromptIssued => streams' = <<>>]_vars

(***************************************************************************)
(* C27.  A second redirection operator.                                    *)
(***************************************************************************)
\* the line read in this step
LineOfStep == history'[historySize(history) + 1]

\* the words of a line as typed, cut at its spaces
WordsTyped(line) == split(line, SP)

\* the arguments hold an operator, its target and, after them, an operator
HasSecondOperator(args) ==
    \E i \in 1..Len(args) :
        /\ isRedirect(args[i])
        /\ \A h \in 1..(i - 1) : ~isRedirect(args[h])
        /\ \E j \in (i + 2)..Len(args) : isRedirect(args[j])

\* the step has read a single-stage line with a second redirection operator
SecondOperatorRead ==
    /\ LineRead
    /\ historySize(history) + 1 \in DOMAIN history'
    /\ TokensRead # <<>>
    /\ ~isPipeline(TokensRead)
    /\ HasSecondOperator(Tail(TokensRead))

\* C27: a line with a second redirection operator is rejected: no command
\* is started, nothing goes to stdout and no file is opened.
C27_SecondOperatorRejected ==
    [][SecondOperatorRead
         => /\ execs' = execs
            /\ stdout' = stdout
            /\ streams' = streams]_vars

(***************************************************************************)
(* C28.  The message for an unknown command.                               *)
(***************************************************************************)
\* the step has read a single-stage line whose head is not an exit word, a
\* built-in or an executable on the path
UnknownHeadRead ==
    /\ LineRead
    /\ historySize(history) + 1 \in DOMAIN history'
    /\ TokensRead # <<>>
    /\ ~isPipeline(TokensRead)
    /\ ~isShellCommand(TokensRead[1])
    /\ ~isExecutable(TokensRead[1])

\* the texts the step has reported: what it added to stderr and what it
\* handed to a write stream
ReportedInStep ==
    {stderr'[i].text : i \in (Len(stderr) + 1)..Len(stderr')}
    \cup {streams'[i].data : i \in (Len(streams) + 1)..Len(streams')}

\* C28: the message for an unknown head is the line followed by
\* ": command not found", with or without arguments.
C28_MessageIsLineCommandNotFound ==
    [][UnknownHeadRead
         => (LineOfStep \o <<": command not found", NL>>) \in ReportedInStep]_vars

(***************************************************************************)
(* C29.  Quoted and escaped operators.                                     *)
(***************************************************************************)
\* the step has read a single-stage line with a token equal to a
\* redirection operator, though no word of the line as typed is an operator:
\* every such token comes from quoting or escaping
QuotedOperatorRead ==
    /\ LineRead
    /\ historySize(history) + 1 \in DOMAIN history'
    /\ TokensRead # <<>>
    /\ ~isPipeline(TokensRead)
    /\ \E i \in 2..Len(TokensRead) : isRedirect(TokensRead[i])
    /\ \A i \in 1..Len(WordsTyped(LineOfStep)) : ~isRedirect(WordsTyped(LineOfStep)[i])

\* C29: an operator that was quoted or escaped redirects nothing: no file is
\* opened, and echo prints it among its arguments.
C29_QuotedOperatorIsAnArgument ==
    [][QuotedOperatorRead
         => /\ streams' = streams
            /\ TokensRead[1] = echo
                 => AddedToStdout = Join(Tail(TokensRead), <<SP>>) \o <<NL>>]_vars

(***************************************************************************)
(* C30.  Where the tokenizer splits.                                       *)
(***************************************************************************)
\* character k of the line is a space or a tab outside quotes and not
\* backslash-escaped, by the rows of the state table
SplitsAt(line, k) ==
    /\ line[k] \in {SP, TAB}
    /\ TableRun(TableInit, SubSeq(line, 1, k - 1)).state = "Neutral"

\* the line cut at the characters it splits at
RECURSIVE SegmentsOf(_)
SegmentsOf(line) ==
    IF \E k \in 1..Len(line) : SplitsAt(line, k)
    THEN LET k == CHOOSE i \in 1..Len(line) :
                     SplitsAt(line, i) /\ \A j \in 1..(i - 1) : ~SplitsAt(line, j)
         IN  <<SubSeq(line, 1, k - 1)>> \o SegmentsOf(SubSeq(line, k + 1, Len(line)))
    ELSE <<line>>

\* what a segment accumulates up to its end, whatever state it ends in
Accumulated(segment) == TableRun(TableInit, segment).acc

\* the accumulations of the segments that accumulate something, in order
SegmentTokens(line) ==
    SelectSeq([i \in 1..Len(SegmentsOf(line)) |-> Accumulated(SegmentsOf(line)[i])],
              LAMBDA t : t # <<>>)

\* the spaces and tabs of the line that are quoted or escaped
KeptDelimiters(line) ==
    {k \in 1..Len(line) : line[k] \in {SP, TAB} /\ ~SplitsAt(line, k)}

\* C30: the tokens are what the segments between the unquoted, unescaped
\* spaces and tabs accumulate, one token per segment that accumulates
\* anything, also for a segment that ends inside quotes or after a
\* backslash; every quoted or escaped space or tab is inside a token, and no
\* token is empty.
C30_SplitsAtBareDelimitersOnly ==
    fmtDone =>
        /\ fmtTokens = SegmentTokens(fmtLine)
        /\ CountIn(Concat(fmtTokens), {SP, TAB}) = Cardinality(KeptDelimiters(fmtLine))
        /\ \A i \in 1..Len(fmtTokens) : fmtTokens[i] # <<>>

\* C30 witness: a tab splits, and a quote that is never closed keeps its
\* space in the partial token
C30_Witness ==
    /\ fmtDone
    /\ fmtLine = <<TAB, DQ, SP>>
    /\ fmtTokens = << <<SP>> >>


(***************************************************************************)
(* The close event of a built-in stage.                                    *)
(***************************************************************************)
\* the built-in stages of the session's pipelines, as <<pipeline, stage>>
BuiltinStages ==
    UNION { { <<p, k>> : k \in {j \in 1..Len(pipes[p].stages) :
                                  pipes[p].stages[j].builtin} } :
            p \in 1..Len(pipes) }

\* the positions of an event among the events of a stage
PositionsOf(st, event) == {i \in 1..Len(st.events) : st.events[i] = event}

\* the close event comes once, after the body and the end of both streams
ClosedInOrder(st) ==
    /\ Cardinality(PositionsOf(st, "close")) = 1
    /\ \A c \in PositionsOf(st, "close") :
         \A event \in {"body", "end stdout", "end stderr"} :
            \E i \in PositionsOf(st, event) : i < c

\* the code is 0 when the body wrote no error message and 1 otherwise
CodeTellsSuccess(st) ==
    st.codes = << IF st.stderr = <<>> THEN 0 ELSE 1 >>

\* C31: a built-in pipeline stage emits close at most once, and once its
\* callback has run exactly once: with code 0 when its body succeeded and 1
\* otherwise, after the body and after stdout and stderr were ended; and in
\* the step that emits it the close handler of handlePipelines was already
\* registered on the stage.
C31_CloseOnceAfterBodyAndEnds ==
    /\ [](\A pk \in BuiltinStages :
            LET st == pipes[pk[1]].stages[pk[2]]
            IN  IF st.state = "closed"
                THEN ClosedInOrder(st) /\ CodeTellsSuccess(st)
                ELSE st.codes = <<>> /\ PositionsOf(st, "close") = {})
    /\ [][\A pk \in BuiltinStages :
            Len(pipes'[pk[1]].stages[pk[2]].codes)
                > Len(pipes[pk[1]].stages[pk[2]].codes)
            => "close" \in pipes[pk[1]].stages[pk[2]].handlers]_vars

\* a pipeline with a built-in stage closed with code 1 and one with code 0
C31_Witness ==
    \E pk \in BuiltinStages : \E j \in 1..Len(pipes[pk[1]].stages) :
        /\ pipes[pk[1]].stages[pk[2]].codes = <<1>>
        /\ pipes[pk[1]].stages[j].builtin
        /\ pipes[pk[1]].stages[j].codes = <<0>>


(***************************************************************************)
(* The two write streams of an external command with a redirection.        *)
(***************************************************************************)
\* stream i is the last stream open on its target
LastOnTarget(i) ==
    \A j \in 1..Len(streams) : j # i => streams[j].path # streams[i].path

\* the call for the other stream of the same command was made: what it
\* carried was echoed on the terminal
OtherStreamEchoed(i) ==
    \E chunk \in Range(IF streams[i].isError THEN stdout ELSE stderr) :
        chunk.line = streams[i].line

\* C32: an external command run with a truncating redirection wrote to stdout
\* and to stderr; when the stream that carries the redirected content is the
\* last of the two to close, the target holds exactly that content.
C32_TargetHoldsRedirectedStream ==
    [][\A i \in 1..Len(streams) :
          (/\ Closes(i)
           /\ streams[i].flags = "w"
           /\ streams[i].data # <<>>
           /\ OtherStreamEchoed(i)
           /\ LastOnTarget(i))
          => files[streams[i].path] = streams[i].data]_vars

\* the same for an appending redirection: the target ends with the content
AppendKeepsRedirectedStream ==
    [][\A i \in 1..Len(streams) :
          (/\ Closes(i)
           /\ streams[i].flags = "a"
           /\ streams[i].data # <<>>
           /\ OtherStreamEchoed(i)
           /\ LastOnTarget(i))
          => files[streams[i].path] = streams[i].data]_vars


(***************************************************************************)
(* The loop that prints the match list.                                    *)
(***************************************************************************)
\* the matches of the rows printed so far, in order
PrintedMatches == Concat([k \in 1..Len(list.rows) |-> list.rows[k].row])

\* an iteration has run
RowPrinted == Len(list'.rows) = Len(list.rows) + 1

\* C33: every iteration of the row loop advances by at least one match, and
\* when the loop has ended every match was printed exactly once, in order,
\* for every list of matches and every width of the terminal.
C33_RowLoopAdvancesAndPrintsAll ==
    /\ [][RowPrinted => list'.i > list.i]_vars
    /\ [](list.phase = "done" => PrintedMatches = list.matches)

\* the same for the lists whose widest column fits in the terminal
RowLoopAdvancesWhenColumnFits ==
    /\ [][(RowPrinted /\ maxLen(list.matches) + 2 <= columnsOf(list.columns))
          => list'.i > list.i]_vars
    /\ [](list.phase = "done" => PrintedMatches = list.matches)


(***************************************************************************)
(* The Trie.                                                               *)
(***************************************************************************)
\* the words handed to insert
Inserted == Range(utilCall.args.words)

\* the number of times word is among the words returned
TimesReturned(word) ==
    Cardinality({i \in 1..Len(utilCall.result) : utilCall.result[i] = word})

\* C34: after the words of S were inserted, in any order and with repeats,
\* autocomplete(p) holds every word of S that p is a prefix of exactly once
\* and nothing else (so p itself iff p is in S, and nothing when no word of
\* S has the prefix p); inserting a word again leaves the trie as it was.
C34_AutocompleteGivesWordsWithPrefix ==
    utilCall.function = "autocomplete" /\ utilCall.returned =>
        /\ \A w \in Inserted :
              TimesReturned(w) = IF IsPrefix(utilCall.args.prefix, w) THEN 1 ELSE 0
        /\ Range(utilCall.result) \subseteq Inserted
        /\ \A w \in Inserted :
              LET t == insertAll(EmptyTrie, utilCall.args.words)
              IN  insert(t, w) = t

\* a word was inserted twice, the prefix is one of the words and has a longer
\* word after it
C34_Witness ==
    /\ utilCall.function = "autocomplete" /\ utilCall.returned
    /\ Len(utilCall.args.words) > Cardinality(Inserted)
    /\ utilCall.args.prefix \in Inserted
    /\ Len(utilCall.result) > 1

(***************************************************************************)
(* findLCP.                                                                *)
(***************************************************************************)
\* p is a prefix of every string handed to findLCP
PrefixOfAll(p) == \A i \in 1..Len(utilCall.args) : IsPrefix(p, utilCall.args[i])

\* C35: for a nonempty list findLCP gives a prefix of every element, and no
\* longer string is a prefix of every element; for the empty list it gives
\* the empty string.
C35_LongestCommonPrefix ==
    utilCall.function = "findLCP" /\ utilCall.returned =>
        IF utilCall.args = <<>> THEN utilCall.result = <<>>
        ELSE /\ PrefixOfAll(utilCall.result)
             /\ \A k \in 0..Len(utilCall.args[1]) :
                   PrefixOfAll(SubSeq(utilCall.args[1], 1, k))
                   => k <= Len(utilCall.result)

\* three strings whose longest common prefix is shorter than each of them
\* and not empty
C35_Witness ==
    /\ utilCall.function = "findLCP" /\ utilCall.returned
    /\ Len(utilCall.args) = 3
    /\ utilCall.result # <<>>
    /\ \A i \in 1..3 : Len(utilCall.args[i]) > Len(utilCall.result)

====
